---- MODULE Spec2Model ----
(***************************************************************************)
(* Model of the PowerCenter -> Azure Data Factory translation engine:      *)
(*   src/src/translator.py             PowerCenterToADFTranslator          *)
(*   src/src/expression_translator.py  ExpressionTranslator                *)
(*   src/src/script_generator.py       ADFScriptGenerator                  *)
(*   src/src/generator.py              ADFGenerator                        *)
(*   src/src/validator.py              MappingValidator                    *)
(* Names are strings; text (column names, expressions) is a sequence of    *)
(* one-character strings, so that regular-expression matching is modelled  *)
(* character by character.                                                 *)
(***************************************************************************)
EXTENDS Integers, Sequences, FiniteSets, TLC

VARIABLES
    pc,                       \* position of the running call
    metadata,                 \* MappingMetadata given to translate_mapping
    connection_map,           \* PowerCenterToADFTranslator.connection_map
    column_case_map,          \* PowerCenterToADFTranslator.column_case_map
    errors,                   \* PowerCenterToADFTranslator.errors
    warnings,                 \* PowerCenterToADFTranslator.warnings
    transformations,          \* adf_structure['transformations'], the argument
                              \* of _topological_sort_transformations
    ordered_transformations,  \* its return value
    source_names,             \* generate_dataflow: names of the declared sources
    script_lines,             \* generate_dataflow: the script blocks emitted
    previous_step,            \* generate_dataflow: name of the last emitted step
    processed_transformations,\* generate_dataflow: transformations emitted so far
    validation_errors,        \* ADFScriptGenerator.validation_errors
    validation_warnings,      \* ADFScriptGenerator.validation_warnings
    adf_generator,            \* ADFGenerator: validation_errors, validation_warnings
                              \* and the sources, transformations and sinks
                              \* of the dataflow generate_dataflow builds
    translation,              \* the translator's ExpressionTranslator: the
                              \* expression of a call and what it has computed
    returned,                 \* the structures translate_mapping has returned
    validator,                \* MappingValidator: errors, warnings and the
                              \* tuples validate has returned
    cursor                    \* index of the running loop's next element

translatorVars == <<metadata, connection_map, column_case_map, errors, warnings,
                    translation>>

generatorVars == <<source_names, script_lines, previous_step,
                   processed_transformations, validation_errors,
                   validation_warnings>>

vars == <<pc, metadata, connection_map, column_case_map, errors, warnings, transformations,
          ordered_transformations, source_names, script_lines, previous_step,
          processed_transformations, validation_errors, validation_warnings,
          adf_generator, translation, returned, validator, cursor>>

\* Python's None (also stands for an absent dictionary key: both are falsy)
None == "None"

(***************************************************************************)
(* Generic helpers                                                         *)
(***************************************************************************)
Range(s) == {s[i] : i \in DOMAIN s}

(***************************************************************************)
(* Names and their order.  Python compares str values by code point; the   *)
(* names the model uses are listed here in that order.                     *)
(***************************************************************************)
NameOrder == <<"A", "D", "L", "S", "S1", "S2", "SQ_A", "SQ_B", "T", "X", "Z", "a", "b", "c">>

NameRank(n) == CHOOSE i \in DOMAIN NameOrder : NameOrder[i] = n

\* str.__lt__ on names
NameLess(x, y) == NameRank(x) < NameRank(y)

(***************************************************************************)
(* ADFScriptGenerator._topological_sort_transformations                    *)
(***************************************************************************)
\* the dependencies without the rightInput
Dependencies_NoRightInput(trans) ==
    {d \in {trans.mainInput, trans.leftInput} : d # None}

\* the set `dependencies` of one transformation: inputs that are set and truthy
Dependencies(trans) ==
    {d \in {trans.mainInput, trans.leftInput, trans.rightInput} : d # None}

\* trans_map = {t['name']: t for t in transformations}: the last entry of a name
trans_map(ts, name) ==
    ts[CHOOSE i \in DOMAIN ts :
          /\ ts[i].name = name
          /\ \A j \in DOMAIN ts : ts[j].name = name => j <= i]

GraphKeys(ts) == {ts[i].name : i \in DOMAIN ts}

\* graph[dep]: the names appended to it, in the order the loop over the
\* transformations appends them (one append per transformation and dependency)
graph(ts, dep) ==
    LET F[k \in 0..Len(ts)] ==
            IF k = 0 THEN <<>>
            ELSE IF dep \in Dependencies(ts[k])
                 THEN Append(F[k - 1], ts[k].name)
                 ELSE F[k - 1]
    IN  F[Len(ts)]

\* in_degree[name] after the edges are added: one increment per append
in_degree(ts) ==
    [name \in GraphKeys(ts) |->
        Cardinality({<<k, dep>> \in (DOMAIN ts) \X GraphKeys(ts) :
                        ts[k].name = name /\ dep \in Dependencies(ts[k])})]

\* queue = [name for name in in_degree if in_degree[name] == 0]
\* (dictionary order: first insertion of each name)
InitialQueue(ts, deg) ==
    LET F[k \in 0..Len(ts)] ==
            IF k = 0 THEN <<>>
            ELSE IF deg[ts[k].name] = 0 /\ ts[k].name \notin Range(F[k - 1])
                 THEN Append(F[k - 1], ts[k].name)
                 ELSE F[k - 1]
    IN  F[Len(ts)]

\* the queue left in insertion order
SortQueue_Unsorted(queue) == queue

\* queue.sort()
SortQueue(queue) == SortSeq(queue, NameLess)

\* for neighbor in graph[node]: decrement, append to the queue at zero
RECURSIVE VisitNeighbors(_, _, _)
VisitNeighbors(neighbors, deg, queue) ==
    IF neighbors = <<>> THEN [in_degree |-> deg, queue |-> queue]
    ELSE LET n    == Head(neighbors)
             deg2 == [deg EXCEPT ![n] = @ - 1]
         IN  VisitNeighbors(Tail(neighbors), deg2,
                            IF deg2[n] = 0 THEN Append(queue, n) ELSE queue)

\* while queue: ...   returns ordered_names
RECURSIVE KahnLoop(_, _, _, _)
KahnLoop(ts, deg, queue, ordered_names) ==
    IF queue = <<>> THEN ordered_names
    ELSE LET sorted == SortQueue(queue)
             node   == Head(sorted)
             after  == VisitNeighbors(graph(ts, node), deg, Tail(sorted))
         IN  KahnLoop(ts, after.in_degree, after.queue, Append(ordered_names, node))

OrderedNames(ts) == KahnLoop(ts, in_degree(ts), InitialQueue(ts, in_degree(ts)), <<>>)

\* the return value without the comparison of the lengths
SortResult_NoCycleCheck(ts, ordered_names) ==
    [i \in 1..Len(ordered_names) |-> trans_map(ts, ordered_names[i])]

\* the comparison of the lengths that detects a cycle, and the return value
SortResult(ts, ordered_names) ==
    IF Len(ordered_names) # Len(ts)
    THEN ts
    ELSE [i \in 1..Len(ordered_names) |-> trans_map(ts, ordered_names[i])]

topological_sort_transformations(ts) == SortResult(ts, OrderedNames(ts))

(***************************************************************************)
(* Inputs of the sort: lists of uniquely named transformations whose input *)
(* fields name transformations of the list, a stream outside it, or None.  *)
(***************************************************************************)
\* most input fields that are set, over the whole list
MaxDeps == 4

TransNames == {"a", "b", "c"}

DepValues == TransNames \cup {"S"}

InputShapes ==
    [mainInput : DepValues \cup {None}, leftInput : {None}, rightInput : {None}]
    \cup [mainInput : {None}, leftInput  : DepValues \cup {None},
                              rightInput : DepValues \cup {None}]

DepCount(shape) == Cardinality({f \in {"mainInput", "leftInput", "rightInput"} :
                                   shape[f] # None})

SortNode(n, shape) ==
    [name |-> n, mainInput |-> shape.mainInput,
     leftInput |-> shape.leftInput, rightInput |-> shape.rightInput]

RECURSIVE TotalDeps(_)
TotalDeps(ts) == IF ts = <<>> THEN 0 ELSE DepCount(Head(ts)) + TotalDeps(Tail(ts))

RECURSIVE SortInputs(_)
SortInputs(n) ==
    IF n = 0 THEN {<<>>}
    ELSE LET shorter == SortInputs(n - 1)
         IN  shorter \cup
             {Append(ts, SortNode(nm, sh)) :
                 <<ts, nm, sh>> \in
                   {x \in shorter \X TransNames \X InputShapes :
                       /\ Len(x[1]) = n - 1
                       /\ x[2] \notin GraphKeys(x[1])
                       /\ TotalDeps(x[1]) + DepCount(x[3]) <= MaxDeps}}

\* the translator and the generator before any call on them
TranslatorIdle ==
    /\ metadata = [sources |-> <<>>, transformations |-> <<>>,
                   connectors |-> <<>>, targets |-> <<>>]
    /\ connection_map = <<>>
    /\ column_case_map = <<>>
    /\ errors = <<>>
    /\ warnings = <<>>

GeneratorIdle ==
    /\ source_names = <<>>
    /\ script_lines = <<>>
    /\ previous_step = None
    /\ processed_transformations = <<>>
    /\ validation_errors = <<>>
    /\ validation_warnings = <<>>
    /\ adf_generator = [validation_errors |-> <<>>, validation_warnings |-> <<>>,
                        sources |-> <<>>, transformations |-> <<>>, sinks |-> <<>>]

\* no call of ExpressionTranslator.translate on its own, no structure
\* returned yet
TranslationIdle ==
    /\ translation = [expression |-> <<>>, translated |-> <<>>, second |-> <<>>,
                      paren_end |-> 0, args |-> <<>>]
    /\ returned = <<>>

\* MappingValidator.__init__
ValidatorIdle ==
    validator = [errors |-> <<>>, warnings |-> <<>>, recommendations |-> <<>>,
                 results |-> <<>>]

TopoInit ==
    /\ pc = "sort"
    /\ transformations \in SortInputs(Cardinality(TransNames))
    /\ ordered_transformations = <<>>
    /\ cursor = 1
    /\ TranslatorIdle
    /\ GeneratorIdle
    /\ TranslationIdle
    /\ ValidatorIdle

\* one call of _topological_sort_transformations
TopologicalSort ==
    /\ pc = "sort"
    /\ ordered_transformations' = topological_sort_transformations(transformations)
    /\ pc' = "sorted"
    /\ UNCHANGED <<transformations, cursor, translatorVars, generatorVars,
                   adf_generator, returned, validator>>

TopoNext == TopologicalSort

SpecTopo == TopoInit /\ [][TopoNext]_vars

(***************************************************************************)
(* Properties of the Topological Orderer                                   *)
(***************************************************************************)
\* the inputs a transformation names, read off its three input fields
InputsOf(t) == {t.mainInput, t.leftInput, t.rightInput} \ {None}

NamesOf(ts) == [i \in DOMAIN ts |-> ts[i].name]

NodeNamed(ts, n) == ts[CHOOSE i \in DOMAIN ts : ts[i].name = n]

\* the dependency edges: inputs that name a transformation of the list
InputsInList(ts, n) == InputsOf(NodeNamed(ts, n)) \cap Range(NamesOf(ts))

\* every transformation n depends on, directly or through others
Ancestors(ts, n) ==
    LET A[k \in 0..Len(ts)] ==
            IF k = 0 THEN InputsInList(ts, n)
            ELSE A[k - 1] \cup UNION {InputsInList(ts, m) : m \in A[k - 1]}
    IN  A[Len(ts)]

HasCycle(ts) == \E n \in Range(NamesOf(ts)) : n \in Ancestors(ts, n)

IsPermutationOf(out, ts) ==
    /\ Len(out) = Len(ts)
    /\ \A i \in DOMAIN ts : \E j \in DOMAIN out : out[j] = ts[i]

\* C1: for uniquely named transformations with acyclic dependency edges the
\* sort returns a permutation of its input in which every dependency comes
\* before the transformation that depends on it.
C1_DependenciesFirst ==
    (pc = "sorted" /\ ~HasCycle(transformations)) =>
        /\ IsPermutationOf(ordered_transformations, transformations)
        /\ \A i, j \in DOMAIN ordered_transformations :
              ordered_transformations[j].name \in InputsOf(ordered_transformations[i])
                  => j < i

\* a sorted acyclic list whose declaration order puts a join before both its inputs
C1_Witness ==
    /\ pc = "sorted"
    /\ ~HasCycle(transformations)
    /\ Len(transformations) = 3
    /\ InputsOf(transformations[1]) = {transformations[2].name, transformations[3].name}
    /\ ordered_transformations # transformations

\* C2: when the dependency edges contain a cycle (a transformation naming
\* itself included) the sort returns the complete input list in its
\* declaration order.
C2_CycleKeepsDeclarationOrder ==
    (pc = "sorted" /\ HasCycle(transformations)) =>
        ordered_transformations = transformations

\* a cyclic input, declared out of name order, with a transformation outside
\* the cycle that Kahn's loop did emit
C2_Witness ==
    /\ pc = "sorted"
    /\ HasCycle(transformations)
    /\ Len(transformations) = 3
    /\ \E i \in DOMAIN transformations :
          transformations[i].name \in InputsOf(transformations[i])
    /\ NameLess(transformations[3].name, transformations[1].name)
    /\ Len(OrderedNames(transformations)) = 1
    /\ ordered_transformations = transformations

\* the names not yet emitted before position k whose dependency edges all
\* come from names emitted before position k
ReadyAt(ts, out, k) ==
    LET emitted == {out[i].name : i \in 1..(k - 1)}
    IN  {n \in Range(NamesOf(ts)) \ emitted : InputsInList(ts, n) \subseteq emitted}

Reorderings(ts) ==
    {[i \in DOMAIN ts |-> ts[p[i]]] : p \in Permutations(DOMAIN ts)}

\* C3: on an acyclic graph every position of the output holds the smallest
\* name among the nodes of in-degree zero at that step, and the sort of any
\* reordering of the input list gives the same order of names.
C3_DeterministicOrder ==
    (pc = "sorted" /\ ~HasCycle(transformations)) =>
        /\ \A k \in DOMAIN ordered_transformations :
              /\ ordered_transformations[k].name
                    \in ReadyAt(transformations, ordered_transformations, k)
              /\ \A n \in ReadyAt(transformations, ordered_transformations, k) :
                    ~NameLess(n, ordered_transformations[k].name)
        /\ \A r \in Reorderings(transformations) :
              NamesOf(topological_sort_transformations(r))
                  = NamesOf(ordered_transformations)

\* three transformations, two of them ready at once and declared in
\* descending name order, the third depending on the larger name
C3_Witness ==
    /\ pc = "sorted"
    /\ ~HasCycle(transformations)
    /\ Len(transformations) = 3
    /\ InputsInList(transformations, transformations[1].name) = {}
    /\ InputsInList(transformations, transformations[2].name) = {}
    /\ NameLess(transformations[2].name, transformations[1].name)
    /\ InputsInList(transformations, transformations[3].name)
           = {transformations[1].name}
    /\ NamesOf(ordered_transformations) # NamesOf(transformations)

(***************************************************************************)
(* PowerCenterToADFTranslator: the connector graph                         *)
(***************************************************************************)
\* the inputs with their repetitions
Dedup_KeepAll(inputs) == inputs

\* list(dict.fromkeys(inputs)): first occurrences, in order
Dedup(inputs) ==
    LET F[k \in 0..Len(inputs)] ==
            IF k = 0 THEN <<>>
            ELSE IF inputs[k] \in Range(F[k - 1]) THEN F[k - 1]
                 ELSE Append(F[k - 1], inputs[k])
    IN  F[Len(inputs)]

\* _build_connection_map: to_instance -> from_instance of its connectors, in order
build_connection_map(connectors) ==
    [to \in {connectors[i].to_instance : i \in DOMAIN connectors} |->
        LET F[k \in 0..Len(connectors)] ==
                IF k = 0 THEN <<>>
                ELSE IF connectors[k].to_instance = to
                     THEN Append(F[k - 1], connectors[k].from_instance)
                     ELSE F[k - 1]
        IN  F[Len(connectors)]]

\* self.connection_map.get(name, [])
ConnectionsOf(cm, name) == IF name \in DOMAIN cm THEN cm[name] ELSE <<>>

\* the last input that is the name of a source
FirstSourceAmong_Last(inputs, sources, own) ==
    IF \E i \in DOMAIN inputs : inputs[i] \in Range(sources)
    THEN inputs[CHOOSE i \in DOMAIN inputs :
                   /\ inputs[i] \in Range(sources)
                   /\ \A j \in DOMAIN inputs : inputs[j] \in Range(sources) => j <= i]
    ELSE own

\* the loop over the inputs of a Source Qualifier: the first input that is
\* the name of a source, or the qualifier's own name
FirstSourceAmong(inputs, sources, own) ==
    IF \E i \in DOMAIN inputs : inputs[i] \in Range(sources)
    THEN inputs[CHOOSE i \in DOMAIN inputs :
                   /\ inputs[i] \in Range(sources)
                   /\ \A j \in DOMAIN inputs : inputs[j] \in Range(sources) => i <= j]
    ELSE own

\* _resolve_source_qualifier_to_source
resolve_source_qualifier_to_source(transformation_name, md, cm) ==
    LET ts == md.transformations
    IN  IF \E i \in DOMAIN ts : ts[i].name = transformation_name
        THEN LET first == CHOOSE i \in DOMAIN ts :
                             /\ ts[i].name = transformation_name
                             /\ \A j \in DOMAIN ts :
                                   ts[j].name = transformation_name => i <= j
             IN  IF ts[first].type = "Source Qualifier"
                 THEN FirstSourceAmong(ConnectionsOf(cm, transformation_name),
                                       md.sources, transformation_name)
                 ELSE transformation_name
        ELSE transformation_name

\* mapping_rules['transformations'] (_get_default_rules)
transformation_mappings ==
    [t \in {"Source Qualifier", "Expression", "Filter", "Aggregator", "Joiner",
            "Sorter", "Router", "Lookup", "Lookup Procedure", "Update Strategy"} |->
        CASE t = "Source Qualifier" -> "Source"
          [] t = "Expression"       -> "DerivedColumn"
          [] t = "Filter"           -> "Filter"
          [] t = "Aggregator"       -> "Aggregate"
          [] t = "Joiner"           -> "Join"
          [] t = "Sorter"           -> "Sort"
          [] t = "Router"           -> "ConditionalSplit"
          [] t = "Lookup"           -> "Lookup"
          [] t = "Lookup Procedure" -> "Lookup"
          [] t = "Update Strategy"  -> "AlterRow"]

\* a translated transformation: the keys the generator reads, None or empty
\* where the translator of the kind does not set them
TransDict(name, type) ==
    [name |-> name, type |-> type,
     mainInput |-> None, leftInput |-> None, rightInput |-> None,
     lookupDataset |-> None, columnDisambiguation |-> <<>>,
     lookupConditions |-> <<>>,
     sourceType |-> None, action |-> None,
     columns |-> <<>>, condition |-> <<>>, groupBy |-> <<>>,
     aggregates |-> <<>>, conditions |-> <<>>]

Diagnostic(kind, node) == [kind |-> kind, node |-> node]

\* the inputs of a Joiner with the equal resolved names kept
JoinerInputs_KeepResolved(trans, md, cm) ==
    LET unique_inputs == Dedup(ConnectionsOf(cm, trans.name))
    IN  IF Len(unique_inputs) >= 2
        THEN [leftInput  |-> resolve_source_qualifier_to_source(unique_inputs[1], md, cm),
              rightInput |-> resolve_source_qualifier_to_source(unique_inputs[2], md, cm),
              errors |-> <<>>]
        ELSE IF Len(unique_inputs) = 1
        THEN [leftInput  |-> resolve_source_qualifier_to_source(unique_inputs[1], md, cm),
              rightInput |-> None,
              errors |-> <<Diagnostic("JoinerOneInput", trans.name)>>]
        ELSE [leftInput |-> None, rightInput |-> None,
              errors |-> <<Diagnostic("JoinerNoInputs", trans.name)>>]

\* the inputs of a Joiner and the errors of _translate_joiner
JoinerInputs(trans, md, cm) ==
    LET inputs        == ConnectionsOf(cm, trans.name)
        unique_inputs == Dedup(inputs)
    IN  IF Len(unique_inputs) >= 2
        THEN LET left_input_raw  == unique_inputs[1]
                 right_input_raw == unique_inputs[2]
                 left_input  == resolve_source_qualifier_to_source(left_input_raw, md, cm)
                 right_input == resolve_source_qualifier_to_source(right_input_raw, md, cm)
             IN  IF left_input = right_input /\ left_input_raw # right_input_raw
                 THEN [leftInput  |-> left_input_raw,
                       rightInput |-> right_input_raw,
                       errors |-> <<Diagnostic("JoinerSameStream", trans.name)>>]
                 ELSE [leftInput |-> left_input, rightInput |-> right_input,
                       errors |-> <<>>]
        ELSE IF Len(unique_inputs) = 1
        THEN [leftInput  |-> resolve_source_qualifier_to_source(unique_inputs[1], md, cm),
              rightInput |-> None,
              errors |-> <<Diagnostic("JoinerOneInput", trans.name)>>]
        ELSE [leftInput |-> None, rightInput |-> None,
              errors |-> <<Diagnostic("JoinerNoInputs", trans.name)>>]

\* _translate_joiner (join_condition '', sorted_input False, no master or
\* detail fields: the properties' defaults)
translate_joiner(trans, adf_type, md, cm) ==
    LET in == JoinerInputs(trans, md, cm)
    IN  [results  |-> <<[TransDict(trans.name, adf_type) EXCEPT
                          !.leftInput = in.leftInput, !.rightInput = in.rightInput]>>,
         errors   |-> in.errors,
         warnings |-> <<>>]

(***************************************************************************)
(* Text: a Python str is a sequence of one-character strings               *)
(***************************************************************************)
UpperLetters == <<"A", "B", "C", "D", "E", "F", "G", "H", "I", "J", "K", "L", "M",
                  "N", "O", "P", "Q", "R", "S", "T", "U", "V", "W", "X", "Y", "Z">>

LowerLetters == <<"a", "b", "c", "d", "e", "f", "g", "h", "i", "j", "k", "l", "m",
                  "n", "o", "p", "q", "r", "s", "t", "u", "v", "w", "x", "y", "z">>

Digits == {"0", "1", "2", "3", "4", "5", "6", "7", "8", "9"}

\* \d
IsDigit(c) == c \in Digits

WordChars == Range(UpperLetters) \cup Range(LowerLetters) \cup Digits \cup {"_"}

\* \w
IsWordChar(c) == c \in WordChars

LowerOf == [c \in Range(UpperLetters) |->
               LowerLetters[CHOOSE i \in DOMAIN UpperLetters : UpperLetters[i] = c]]

UpperOf == [c \in Range(LowerLetters) |->
               UpperLetters[CHOOSE i \in DOMAIN LowerLetters : LowerLetters[i] = c]]

\* str.lower() on one character
ToLower(c) == IF c \in DOMAIN LowerOf THEN LowerOf[c] ELSE c

\* str.upper() on one character
ToUpper(c) == IF c \in DOMAIN UpperOf THEN UpperOf[c] ELSE c

Lower(text) == [i \in DOMAIN text |-> ToLower(text[i])]

Upper(text) == [i \in DOMAIN text |-> ToUpper(text[i])]

\* the characters of the names that are written into text
Chars(name) ==
    CASE name = "D"  -> <<"D">>
      [] name = "A"  -> <<"A">>
      [] name = "S1" -> <<"S", "1">>
      [] name = "S2" -> <<"S", "2">>
      [] name = "DISCOUNT" -> <<"D", "I", "S", "C", "O", "U", "N", "T">>
      [] name = "lkp_DIM_PROMO" ->
             <<"l", "k", "p", "_", "D", "I", "M", "_", "P", "R", "O", "M", "O">>
      [] name = "DD_INSERT" -> <<"D", "D", "_", "I", "N", "S", "E", "R", "T">>
      [] name = "DD_UPDATE" -> <<"D", "D", "_", "U", "P", "D", "A", "T", "E">>
      [] name = "DD_DELETE" -> <<"D", "D", "_", "D", "E", "L", "E", "T", "E">>
      [] name = "DD_REJECT" -> <<"D", "D", "_", "R", "E", "J", "E", "C", "T">>
      [] name = None -> <<"N", "o", "n", "e">>

\* text[i:i+len(sub)] == sub  (i counts from 1)
OccursAt(sub, text, i) ==
    /\ i + Len(sub) - 1 <= Len(text)
    /\ \A k \in DOMAIN sub : text[i + k - 1] = sub[k]

\* sub in text
Contains(text, sub) == \E i \in 1..(Len(text) + 1) : OccursAt(sub, text, i)

\* text.count(c)
CountChar(text, c) == Cardinality({i \in DOMAIN text : text[i] = c})

\* \b between positions i - 1 and i
WordBoundary(text, i) ==
    LET before == i > 1 /\ i - 1 <= Len(text) /\ IsWordChar(text[i - 1])
        after  == i >= 1 /\ i <= Len(text) /\ IsWordChar(text[i])
    IN  before # after

IsSpace(c) == c \in {" ", "\t", "\n"}

\* str.strip()
RECURSIVE Strip(_)
Strip(text) ==
    IF text = <<>> THEN text
    ELSE IF IsSpace(Head(text)) THEN Strip(Tail(text))
    ELSE IF IsSpace(text[Len(text)]) THEN Strip(SubSeq(text, 1, Len(text) - 1))
    ELSE text

\* re.match(r'^(.+?)(\d+)$', name): the length of group 1, 0 when no match
TrailingDigits(name) ==
    LET F[k \in 0..Len(name)] ==
            IF k = 0 THEN 0
            ELSE IF IsDigit(name[Len(name) - k + 1]) /\ F[k - 1] = k - 1
                 THEN k ELSE F[k - 1]
    IN  F[Len(name)]

SuffixBaseLen(name) ==
    LET d == TrailingDigits(name)
    IN  IF d = 0 \/ Len(name) < 2 THEN 0
        ELSE IF d = Len(name) THEN 1
        ELSE Len(name) - d

HasNumericSuffix(name) == SuffixBaseLen(name) > 0

\* match.group(1)
SuffixBase(name) == SubSeq(name, 1, SuffixBaseLen(name))

(***************************************************************************)
(* A Python dict with text keys: the pairs <<key, value>> in insertion     *)
(* order                                                                   *)
(***************************************************************************)
DictKeys(d) == {d[i][1] : i \in DOMAIN d}

\* d[key]
DictGet(d, key) == d[CHOOSE i \in DOMAIN d : d[i][1] = key][2]

\* d[key] = value
DictSet(d, key, value) ==
    IF key \in DictKeys(d)
    THEN [i \in DOMAIN d |-> IF d[i][1] = key THEN <<key, value>> ELSE d[i]]
    ELSE Append(d, <<key, value>>)

\* d.update(other)
RECURSIVE DictUpdate(_, _)
DictUpdate(d, other) ==
    IF other = <<>> THEN d
    ELSE DictUpdate(DictSet(d, Head(other)[1], Head(other)[2]), Tail(other))

(***************************************************************************)
(* PowerCenterToADFTranslator._translate_lookup and the other translators  *)
(***************************************************************************)
\* the first loop over trans.fields: the base names of the suffixed fields
collision_base_names(fields) ==
    {SuffixBase(fields[i]) : i \in {j \in DOMAIN fields : HasNumericSuffix(fields[j])}}

\* the condition under which a suffixed field is mapped to the lookup table
SuffixedFieldIsMapped(lookup_table, base_name, return_fields_names) ==
    lookup_table # None /\ base_name \in Range(return_fields_names)

\* the second loop over trans.fields: column_disambiguation
column_disambiguation(fields, lookup_table, return_fields_names, main_input) ==
    LET F[k \in 0..Len(fields)] ==
            IF k = 0 THEN <<>>
            ELSE LET field_name == fields[k]
                 IN  IF HasNumericSuffix(field_name)
                     THEN IF SuffixedFieldIsMapped(lookup_table, SuffixBase(field_name),
                                                   return_fields_names)
                          THEN DictSet(F[k - 1], field_name,
                                       Chars(lookup_table) \o <<"@">> \o SuffixBase(field_name))
                          ELSE F[k - 1]
                     ELSE IF field_name \in collision_base_names(fields)
                                /\ main_input # None
                          THEN DictSet(F[k - 1], field_name,
                                       Chars(main_input) \o <<"@">> \o field_name)
                          ELSE F[k - 1]
    IN  F[Len(fields)]

\* the first position at or after i where sub occurs in text, 0 when none
RECURSIVE FindFrom(_, _, _)
FindFrom(sub, text, i) ==
    IF i + Len(sub) - 1 > Len(text) THEN 0
    ELSE IF OccursAt(sub, text, i) THEN i
    ELSE FindFrom(sub, text, i + 1)

\* text.split(sep)
RECURSIVE Split(_, _)
Split(text, sep) ==
    LET at == FindFrom(sep, text, 1)
    IN  IF at = 0 THEN <<text>>
        ELSE <<SubSeq(text, 1, at - 1)>>
             \o Split(SubSeq(text, at + Len(sep), Len(text)), sep)

\* the operators _parse_join_conditions looks for, in its order
comparison_ops ==
    << <<"=">>, <<"=", "=">>, <<"!", "=">>, <<"<", ">">>, <<">">>, <<"<">>,
       <<">", "=">>, <<"<", "=">> >>

Condition(left, right, operator) ==
    [leftColumn |-> left, rightColumn |-> right, operator |-> operator]

\* the loop over the operators for one part: the condition of the first
\* operator that occurs in the part, none when no operator occurs
PartConditions(part) ==
    LET found == {k \in DOMAIN comparison_ops : Contains(part, comparison_ops[k])}
    IN  IF found = {} THEN <<>>
        ELSE LET op == comparison_ops[CHOOSE k \in found : \A j \in found : k <= j]
                 at == FindFrom(op, part, 1)
             IN  <<Condition(Strip(SubSeq(part, 1, at - 1)),
                             Strip(SubSeq(part, at + Len(op), Len(part))),
                             IF op = <<"=">> THEN <<"=", "=">> ELSE op)>>

\* _parse_join_conditions
parse_join_conditions(condition_str) ==
    IF condition_str = <<>> THEN <<>>
    ELSE LET parts == Split(condition_str, <<" ", "A", "N", "D", " ">>)
             F[k \in 0..Len(parts)] ==
                 IF k = 0 THEN <<>>
                 ELSE F[k - 1] \o PartConditions(Strip(parts[k]))
         IN  F[Len(parts)]

\* main_input of a Lookup: its first unique upstream instance, resolved
LookupMainInput(trans, md, cm) ==
    LET unique_inputs == Dedup(ConnectionsOf(cm, trans.name))
    IN  IF unique_inputs # <<>>
        THEN resolve_source_qualifier_to_source(unique_inputs[1], md, cm)
        ELSE None

\* _translate_lookup (no SQL override, caching and the multiple match policy
\* at their defaults)
translate_lookup(trans, adf_type, md, cm) ==
    LET main_input == LookupMainInput(trans, md, cm)
        flat_file  == trans.source_type = "Flat File"
    IN  [results |-> <<[TransDict(trans.name, adf_type) EXCEPT
                        !.lookupDataset = trans.lookup_table,
                        !.mainInput = main_input,
                        !.lookupConditions = parse_join_conditions(trans.lookup_condition),
                        !.columnDisambiguation =
                            column_disambiguation(trans.fields, trans.lookup_table,
                                                  trans.return_fields, main_input),
                        !.sourceType = IF flat_file THEN "DelimitedText" ELSE None]>>,
         errors   |-> <<>>,
         warnings |-> IF flat_file
                      THEN <<Diagnostic("LookupFlatFile", trans.name)>> ELSE <<>>]

\* _translate_sorter (no sort keys, case_sensitive True) and
\* _translate_source_qualifier
translate_plain(trans, adf_type) ==
    [results |-> <<TransDict(trans.name, adf_type)>>, errors |-> <<>>,
     warnings |-> <<>>]

\* the position after the run of \w characters that begins at position i
RECURSIVE WordEnd(_, _)
WordEnd(text, i) ==
    IF i <= Len(text) /\ IsWordChar(text[i]) THEN WordEnd(text, i + 1) ELSE i

\* re.findall(r'\b[A-Za-z_][A-Za-z0-9_]*\b', text) from position i on, i at
\* a word boundary: a run that begins with a digit holds no match
RECURSIVE WordsFrom(_, _)
WordsFrom(text, i) ==
    IF i > Len(text) THEN <<>>
    ELSE IF IsWordChar(text[i])
         THEN (IF IsDigit(text[i]) THEN <<>>
               ELSE <<SubSeq(text, i, WordEnd(text, i) - 1)>>)
              \o WordsFrom(text, WordEnd(text, i))
         ELSE WordsFrom(text, i + 1)

Words(text) == WordsFrom(text, 1)

\* re.sub(r'\b' + re.escape(word) + r'\b', replacement, text), from i on
RECURSIVE SubWordFrom(_, _, _, _)
SubWordFrom(word, replacement, text, i) ==
    IF i > Len(text) THEN <<>>
    ELSE IF /\ OccursAt(word, text, i)
            /\ WordBoundary(text, i)
            /\ WordBoundary(text, i + Len(word))
         THEN replacement \o SubWordFrom(word, replacement, text, i + Len(word))
         ELSE <<text[i]>> \o SubWordFrom(word, replacement, text, i + 1)

\* _build_column_case_map; the sources of the model declare no fields
build_column_case_map(sources) == <<>>

\* _normalize_column_casing
normalize_column_casing(expression, case_map) ==
    LET words == Words(expression)
        F[k \in 0..Len(words)] ==
            IF k = 0 THEN expression
            ELSE LET word == words[k]
                 IN  IF /\ Lower(word) \in DictKeys(case_map)
                        /\ word # DictGet(case_map, Lower(word))
                     THEN SubWordFrom(word, DictGet(case_map, Lower(word)), F[k - 1], 1)
                     ELSE F[k - 1]
    IN  F[Len(words)]

\* re.sub(r'\s+', ' ', text)
NormalizeSpaces(text) ==
    LET F[i \in 0..Len(text)] ==
            IF i = 0 THEN <<>>
            ELSE IF ~IsSpace(text[i]) THEN Append(F[i - 1], text[i])
            ELSE IF i > 1 /\ IsSpace(text[i - 1]) THEN F[i - 1]
            ELSE Append(F[i - 1], " ")
    IN  F[Len(text)]

\* re.sub(r'\b(IN|OUT)_', '', text), from i on
RECURSIVE StripPortPrefixesFrom(_, _)
StripPortPrefixesFrom(text, i) ==
    IF i > Len(text) THEN <<>>
    ELSE IF WordBoundary(text, i) /\ OccursAt(<<"I", "N", "_">>, text, i)
         THEN StripPortPrefixesFrom(text, i + 3)
    ELSE IF WordBoundary(text, i) /\ OccursAt(<<"O", "U", "T", "_">>, text, i)
         THEN StripPortPrefixesFrom(text, i + 4)
    ELSE <<text[i]>> \o StripPortPrefixesFrom(text, i + 1)

\* the text on which the function, operator and comparison rewrites of
\* ExpressionTranslator.translate find nothing to rewrite
IsPlainText(text) ==
    /\ \A i \in DOMAIN text : text[i] \notin {"(", ")", "'", "\"", "=", "<", "|", ","}
    /\ \A w \in Range(Words(text)) :
          /\ Upper(w) \notin {<<"A", "N", "D">>, <<"O", "R">>, <<"N", "O", "T">>}
          /\ ~Contains(Upper(w), <<"S", "Y", "S", "D", "A", "T", "E">>)

(***************************************************************************)
(* ExpressionTranslator: the denylist and validate_adf_expression           *)
(***************************************************************************)
\* _initialize_forbidden_functions
forbidden_functions ==
    << <<"G", "E", "T", "_", "D", "A", "T", "E", "_", "P", "A", "R", "T", "(">>,
       <<"A", "D", "D", "_", "T", "O", "_", "D", "A", "T", "E", "(">>,
       <<"A", "D", "D", "_", "t", "o", "D", "a", "t", "e", "(">>,
       <<"L", "A", "S", "T", "_", "D", "A", "Y", "(">>,
       <<"T", "O", "_", "C", "H", "A", "R", "(">>,
       <<"T", "O", "_", "D", "A", "T", "E", "(">>,
       <<"R", "E", "P", "L", "A", "C", "E", "_", "C", "H", "A", "R", "(">>,
       <<"I", "N", "S", "T", "R", "(">>,
       <<"D", "E", "C", "O", "D", "E", "(">>,
       <<" ", "A", "N", "D", " ">>,
       <<" ", "O", "R", " ">>,
       <<" ", "N", "O", "T", " ">> >>

\* is_valid of validate_adf_expression
validate_adf_expression(expression) ==
    /\ \A k \in DOMAIN forbidden_functions :
          ~Contains(Upper(expression), Upper(forbidden_functions[k]))
    /\ CountChar(expression, "(") = CountChar(expression, ")")
    /\ CountChar(expression, "'") % 2 = 0
    /\ CountChar(expression, "\"") % 2 = 0

(***************************************************************************)
(* Regular expressions: re.sub, re.search and re.match with Python's       *)
(* backtracking order                                                      *)
(***************************************************************************)
\* the items of a pattern: a literal, a quantified character class (max 0
\* is unbounded), the parentheses of a capturing group, an alternation, a
\* lookahead, `$` and `\b`
Lit(s) == [k |-> "lit", s |-> s]

Class(chars, neg, min, max, lazy) ==
    [k |-> "class", chars |-> chars, neg |-> neg, min |-> min, max |-> max,
     lazy |-> lazy]

Open == [k |-> "open"]

Close == [k |-> "close"]

Alt(alts) == [k |-> "alt", alts |-> alts]

Ahead(alts) == [k |-> "ahead", alts |-> alts]

End == [k |-> "end"]

Boundary == [k |-> "boundary"]

\* the parts of a replacement: text, or the group \g
Text(s) == [g |-> 0, s |-> s]

Group(g) == [g |-> g, s |-> <<>>]

SpaceChars == {" ", "\t", "\n"}

\* \s* and \s+
Spaces == Class(SpaceChars, FALSE, 0, 0, FALSE)

Spaces1 == Class(SpaceChars, FALSE, 1, 0, FALSE)

\* ['"]
Quote == Class({"'", "\""}, FALSE, 1, 1, FALSE)

\* [^c]+? and .+?
LazyExcept(chars) == Class(chars, TRUE, 1, 0, TRUE)

NoMatch == [ok |-> FALSE, start |-> 0, end |-> 0, caps |-> <<>>]

\* the literal at pos, letters compared without case under re.IGNORECASE
LitAt(s, text, pos, ic) ==
    /\ pos + Len(s) - 1 <= Len(text)
    /\ \A k \in DOMAIN s :
          IF ic THEN ToUpper(text[pos + k - 1]) = ToUpper(s[k])
          ELSE text[pos + k - 1] = s[k]

InClass(c, it) == (c \in it.chars) # it.neg

\* how many characters from pos on are of the class, at most it.max
RECURSIVE RunLength(_, _, _, _)
RunLength(it, text, pos, n) ==
    IF \/ pos + n > Len(text)
       \/ it.max # 0 /\ n >= it.max
       \/ ~InClass(text[pos + n], it)
    THEN n
    ELSE RunLength(it, text, pos, n + 1)

\* the match of the items at pos: its end and its groups as <<first, last>>
RECURSIVE Match(_, _, _, _, _)
RECURSIVE TryRepeat(_, _, _, _, _, _, _)
RECURSIVE TryAlts(_, _, _, _, _, _, _)
Match(items, text, pos, caps, ic) ==
    IF items = <<>> THEN [ok |-> TRUE, start |-> 0, end |-> pos, caps |-> caps]
    ELSE LET it == Head(items)
             rest == Tail(items)
         IN  CASE it.k = "lit" ->
                      IF LitAt(it.s, text, pos, ic)
                      THEN Match(rest, text, pos + Len(it.s), caps, ic)
                      ELSE NoMatch
               [] it.k = "class" ->
                      LET run == RunLength(it, text, pos, 0)
                      IN  IF run < it.min THEN NoMatch
                          ELSE TryRepeat(items, text, pos, caps, ic,
                                         IF it.lazy THEN it.min ELSE run, run)
               [] it.k = "open" ->
                      Match(rest, text, pos, Append(caps, <<pos, pos - 1>>), ic)
               [] it.k = "close" ->
                      Match(rest, text, pos,
                            [caps EXCEPT ![Len(caps)] = <<@[1], pos - 1>>], ic)
               [] it.k = "alt" -> TryAlts(it.alts, 1, rest, text, pos, caps, ic)
               [] it.k = "ahead" ->
                      IF \E a \in DOMAIN it.alts : Match(it.alts[a], text, pos, caps, ic).ok
                      THEN Match(rest, text, pos, caps, ic)
                      ELSE NoMatch
               [] it.k = "end" ->
                      IF pos = Len(text) + 1 THEN Match(rest, text, pos, caps, ic)
                      ELSE NoMatch
               [] it.k = "boundary" ->
                      IF WordBoundary(text, pos) THEN Match(rest, text, pos, caps, ic)
                      ELSE NoMatch

\* the class at the head of the items taken n times, then fewer (greedy)
\* or more (lazy) times until the rest matches
TryRepeat(items, text, pos, caps, ic, n, run) ==
    LET it == Head(items)
        r == Match(Tail(items), text, pos + n, caps, ic)
    IN  IF r.ok THEN r
        ELSE IF it.lazy
             THEN IF n >= run THEN NoMatch
                  ELSE TryRepeat(items, text, pos, caps, ic, n + 1, run)
             ELSE IF n <= it.min THEN NoMatch
                  ELSE TryRepeat(items, text, pos, caps, ic, n - 1, run)

\* the alternatives from the a-th on, each followed by the rest
TryAlts(alts, a, rest, text, pos, caps, ic) ==
    IF a > Len(alts) THEN NoMatch
    ELSE LET r == Match(alts[a] \o rest, text, pos, caps, ic)
         IN  IF r.ok THEN r ELSE TryAlts(alts, a + 1, rest, text, pos, caps, ic)

\* re.search from pos on: the leftmost match
RECURSIVE Search(_, _, _, _)
Search(items, text, pos, ic) ==
    IF pos > Len(text) + 1 THEN NoMatch
    ELSE LET m == Match(items, text, pos, <<>>, ic)
         IN  IF m.ok THEN [m EXCEPT !.start = pos]
             ELSE Search(items, text, pos + 1, ic)

\* the replacement with its groups filled in
Expand(repl, text, caps) ==
    LET F[k \in 0..Len(repl)] ==
            IF k = 0 THEN <<>>
            ELSE IF repl[k].g = 0 THEN F[k - 1] \o repl[k].s
            ELSE F[k - 1] \o SubSeq(text, caps[repl[k].g][1], caps[repl[k].g][2])
    IN  F[Len(repl)]

\* re.sub from pos on; no pattern of the translator matches the empty text
RECURSIVE Sub(_, _, _, _, _)
Sub(items, repl, text, pos, ic) ==
    IF pos > Len(text) THEN <<>>
    ELSE LET replaced(m) ==
                 IF ~m.ok \/ m.end = m.start THEN SubSeq(text, pos, Len(text))
                 ELSE SubSeq(text, pos, m.start - 1) \o Expand(repl, text, m.caps)
                      \o Sub(items, repl, text, m.end, ic)
         IN  replaced(Search(items, text, pos, ic))

(***************************************************************************)
(* ExpressionTranslator.translate                                          *)
(***************************************************************************)
\* _initialize_function_patterns: each pattern with its replacement
function_patterns ==
    << << <<
          Lit(<<"G", "E", "T", "_", "D", "A", "T", "E", "_", "P", "A", "R", "T">>),
          Spaces, Lit(<<"(">>), Spaces, Open, LazyExcept({"\n"}), Close,
          Spaces, Lit(<<",">>), Spaces, Quote, Lit(<<"D", "D">>), Quote,
          Spaces, Lit(<<")">>)>>,
          <<Text(<<"d", "a", "y", "O", "f", "M", "o", "n", "t", "h", "(">>),
          Group(1), Text(<<")">>)>> >>,
       << <<
          Lit(<<"G", "E", "T", "_", "D", "A", "T", "E", "_", "P", "A", "R", "T">>),
          Spaces, Lit(<<"(">>), Spaces, Open, LazyExcept({"\n"}), Close,
          Spaces, Lit(<<",">>), Spaces, Quote, Lit(<<"M", "M">>), Quote,
          Spaces, Lit(<<")">>)>>,
          <<Text(<<"m", "o", "n", "t", "h", "(">>), Group(1), Text(<<")">>)>> >>,
       << <<
          Lit(<<"G", "E", "T", "_", "D", "A", "T", "E", "_", "P", "A", "R", "T">>),
          Spaces, Lit(<<"(">>), Spaces, Open, LazyExcept({"\n"}), Close,
          Spaces, Lit(<<",">>), Spaces, Quote, Lit(<<"Y", "Y", "Y", "Y">>),
          Quote, Spaces, Lit(<<")">>)>>,
          <<Text(<<"y", "e", "a", "r", "(">>), Group(1), Text(<<")">>)>> >>,
       << <<
          Lit(<<"G", "E", "T", "_", "D", "A", "T", "E", "_", "P", "A", "R", "T">>),
          Spaces, Lit(<<"(">>), Spaces, Open, LazyExcept({"\n"}), Close,
          Spaces, Lit(<<",">>), Spaces, Quote, Lit(<<"Y", "Y">>), Quote,
          Spaces, Lit(<<")">>)>>,
          <<Text(<<"y", "e", "a", "r", "(">>), Group(1), Text(<<")">>)>> >>,
       << <<
          Lit(<<"G", "E", "T", "_", "D", "A", "T", "E", "_", "P", "A", "R", "T">>),
          Spaces, Lit(<<"(">>), Spaces, Open, LazyExcept({"\n"}), Close,
          Spaces, Lit(<<",">>), Spaces, Quote, Lit(<<"Y">>), Quote, Spaces,
          Lit(<<")">>)>>,
          <<Text(<<"y", "e", "a", "r", "(">>), Group(1), Text(<<")">>)>> >>,
       << <<
          Lit(<<"G", "E", "T", "_", "D", "A", "T", "E", "_", "P", "A", "R", "T">>),
          Spaces, Lit(<<"(">>), Spaces, Open, LazyExcept({"\n"}), Close,
          Spaces, Lit(<<",">>), Spaces, Quote, Lit(<<"D", "D", "D">>), Quote,
          Spaces, Lit(<<")">>)>>,
          <<Text(<<"d", "a", "y", "O", "f", "Y", "e", "a", "r", "(">>),
          Group(1), Text(<<")">>)>> >>,
       << <<
          Lit(<<"G", "E", "T", "_", "D", "A", "T", "E", "_", "P", "A", "R", "T">>),
          Spaces, Lit(<<"(">>), Spaces, Open, LazyExcept({"\n"}), Close,
          Spaces, Lit(<<",">>), Spaces, Quote, Lit(<<"W", "W">>), Quote,
          Spaces, Lit(<<")">>)>>,
          <<Text(<<"w", "e", "e", "k", "O", "f", "Y", "e", "a", "r", "(">>),
          Group(1), Text(<<")">>)>> >>,
       << <<
          Lit(<<"G", "E", "T", "_", "D", "A", "T", "E", "_", "P", "A", "R", "T">>),
          Spaces, Lit(<<"(">>), Spaces, Open, LazyExcept({"\n"}), Close,
          Spaces, Lit(<<",">>), Spaces, Quote, Lit(<<"H", "H">>), Quote,
          Spaces, Lit(<<")">>)>>,
          <<Text(<<"h", "o", "u", "r", "(">>), Group(1), Text(<<")">>)>> >>,
       << <<
          Lit(<<"G", "E", "T", "_", "D", "A", "T", "E", "_", "P", "A", "R", "T">>),
          Spaces, Lit(<<"(">>), Spaces, Open, LazyExcept({"\n"}), Close,
          Spaces, Lit(<<",">>), Spaces, Quote, Lit(<<"M", "I">>), Quote,
          Spaces, Lit(<<")">>)>>,
          <<Text(<<"m", "i", "n", "u", "t", "e", "(">>), Group(1),
          Text(<<")">>)>> >>,
       << <<
          Lit(<<"G", "E", "T", "_", "D", "A", "T", "E", "_", "P", "A", "R", "T">>),
          Spaces, Lit(<<"(">>), Spaces, Open, LazyExcept({"\n"}), Close,
          Spaces, Lit(<<",">>), Spaces, Quote, Lit(<<"S", "S">>), Quote,
          Spaces, Lit(<<")">>)>>,
          <<Text(<<"s", "e", "c", "o", "n", "d", "(">>), Group(1),
          Text(<<")">>)>> >>,
       << <<Lit(<<"A", "D", "D", "_", "T", "O", "_", "D", "A", "T", "E">>),
          Spaces, Lit(<<"(">>), Spaces, Open, LazyExcept({","}), Close,
          Spaces, Lit(<<",">>), Spaces, Quote, Lit(<<"D", "D">>), Quote,
          Spaces, Lit(<<",">>), Spaces, Open, LazyExcept({")"}), Close,
          Spaces, Lit(<<")">>)>>,
          <<Text(<<"a", "d", "d", "D", "a", "y", "s", "(">>), Group(1),
          Text(<<",", " ">>), Group(2), Text(<<")">>)>> >>,
       << <<Lit(<<"A", "D", "D", "_", "T", "O", "_", "D", "A", "T", "E">>),
          Spaces, Lit(<<"(">>), Spaces, Open, LazyExcept({","}), Close,
          Spaces, Lit(<<",">>), Spaces, Quote, Lit(<<"M", "M">>), Quote,
          Spaces, Lit(<<",">>), Spaces, Open, LazyExcept({")"}), Close,
          Spaces, Lit(<<")">>)>>,
          <<Text(<<"a", "d", "d", "M", "o", "n", "t", "h", "s", "(">>),
          Group(1), Text(<<",", " ">>), Group(2), Text(<<")">>)>> >>,
       << <<Lit(<<"A", "D", "D", "_", "T", "O", "_", "D", "A", "T", "E">>),
          Spaces, Lit(<<"(">>), Spaces, Open, LazyExcept({","}), Close,
          Spaces, Lit(<<",">>), Spaces, Quote, Lit(<<"Y", "Y", "Y", "Y">>),
          Quote, Spaces, Lit(<<",">>), Spaces, Open, LazyExcept({")"}),
          Close, Spaces, Lit(<<")">>)>>,
          <<Text(<<"a", "d", "d", "Y", "e", "a", "r", "s", "(">>), Group(1),
          Text(<<",", " ">>), Group(2), Text(<<")">>)>> >>,
       << <<Lit(<<"A", "D", "D", "_", "T", "O", "_", "D", "A", "T", "E">>),
          Spaces, Lit(<<"(">>), Spaces, Open, LazyExcept({","}), Close,
          Spaces, Lit(<<",">>), Spaces, Quote, Lit(<<"Y", "Y">>), Quote,
          Spaces, Lit(<<",">>), Spaces, Open, LazyExcept({")"}), Close,
          Spaces, Lit(<<")">>)>>,
          <<Text(<<"a", "d", "d", "Y", "e", "a", "r", "s", "(">>), Group(1),
          Text(<<",", " ">>), Group(2), Text(<<")">>)>> >>,
       << <<Lit(<<"A", "D", "D", "_", "T", "O", "_", "D", "A", "T", "E">>),
          Spaces, Lit(<<"(">>), Spaces, Open, LazyExcept({","}), Close,
          Spaces, Lit(<<",">>), Spaces, Quote, Lit(<<"Y">>), Quote, Spaces,
          Lit(<<",">>), Spaces, Open, LazyExcept({")"}), Close, Spaces,
          Lit(<<")">>)>>,
          <<Text(<<"a", "d", "d", "Y", "e", "a", "r", "s", "(">>), Group(1),
          Text(<<",", " ">>), Group(2), Text(<<")">>)>> >>,
       << <<Lit(<<"A", "D", "D", "_", "T", "O", "_", "D", "A", "T", "E">>),
          Spaces, Lit(<<"(">>), Spaces, Open, LazyExcept({","}), Close,
          Spaces, Lit(<<",">>), Spaces, Quote, Lit(<<"H", "H">>), Quote,
          Spaces, Lit(<<",">>), Spaces, Open, LazyExcept({")"}), Close,
          Spaces, Lit(<<")">>)>>,
          <<Text(<<"a", "d", "d", "H", "o", "u", "r", "s", "(">>), Group(1),
          Text(<<",", " ">>), Group(2), Text(<<")">>)>> >>,
       << <<Lit(<<"A", "D", "D", "_", "T", "O", "_", "D", "A", "T", "E">>),
          Spaces, Lit(<<"(">>), Spaces, Open, LazyExcept({","}), Close,
          Spaces, Lit(<<",">>), Spaces, Quote, Lit(<<"M", "I">>), Quote,
          Spaces, Lit(<<",">>), Spaces, Open, LazyExcept({")"}), Close,
          Spaces, Lit(<<")">>)>>,
          <<Text(<<"a", "d", "d", "M", "i", "n", "u", "t", "e", "s", "(">>),
          Group(1), Text(<<",", " ">>), Group(2), Text(<<")">>)>> >>,
       << <<Lit(<<"A", "D", "D", "_", "T", "O", "_", "D", "A", "T", "E">>),
          Spaces, Lit(<<"(">>), Spaces, Open, LazyExcept({","}), Close,
          Spaces, Lit(<<",">>), Spaces, Quote, Lit(<<"S", "S">>), Quote,
          Spaces, Lit(<<",">>), Spaces, Open, LazyExcept({")"}), Close,
          Spaces, Lit(<<")">>)>>,
          <<Text(<<"a", "d", "d", "S", "e", "c", "o", "n", "d", "s", "(">>),
          Group(1), Text(<<",", " ">>), Group(2), Text(<<")">>)>> >>,
       << <<Lit(<<"A", "D", "D", "_", "t", "o", "D", "a", "t", "e">>),
          Spaces, Lit(<<"(">>), Spaces, Open, LazyExcept({","}), Close,
          Spaces, Lit(<<",">>), Spaces, Quote, Lit(<<"D", "D">>), Quote,
          Spaces, Lit(<<",">>), Spaces, Open, LazyExcept({")"}), Close,
          Spaces, Lit(<<")">>)>>,
          <<Text(<<"a", "d", "d", "D", "a", "y", "s", "(">>), Group(1),
          Text(<<",", " ">>), Group(2), Text(<<")">>)>> >>,
       << <<Lit(<<"A", "D", "D", "_", "t", "o", "D", "a", "t", "e">>),
          Spaces, Lit(<<"(">>), Spaces, Open, LazyExcept({","}), Close,
          Spaces, Lit(<<",">>), Spaces, Quote, Lit(<<"M", "M">>), Quote,
          Spaces, Lit(<<",">>), Spaces, Open, LazyExcept({")"}), Close,
          Spaces, Lit(<<")">>)>>,
          <<Text(<<"a", "d", "d", "M", "o", "n", "t", "h", "s", "(">>),
          Group(1), Text(<<",", " ">>), Group(2), Text(<<")">>)>> >>,
       << <<Lit(<<"A", "D", "D", "_", "t", "o", "D", "a", "t", "e">>),
          Spaces, Lit(<<"(">>), Spaces, Open, LazyExcept({","}), Close,
          Spaces, Lit(<<",">>), Spaces, Quote, Lit(<<"Y", "Y", "Y", "Y">>),
          Quote, Spaces, Lit(<<",">>), Spaces, Open, LazyExcept({")"}),
          Close, Spaces, Lit(<<")">>)>>,
          <<Text(<<"a", "d", "d", "Y", "e", "a", "r", "s", "(">>), Group(1),
          Text(<<",", " ">>), Group(2), Text(<<")">>)>> >>,
       << <<Lit(<<"A", "D", "D", "_", "t", "o", "D", "a", "t", "e">>),
          Spaces, Lit(<<"(">>), Spaces, Open, LazyExcept({","}), Close,
          Spaces, Lit(<<",">>), Spaces, Quote, Lit(<<"Y", "Y">>), Quote,
          Spaces, Lit(<<",">>), Spaces, Open, LazyExcept({")"}), Close,
          Spaces, Lit(<<")">>)>>,
          <<Text(<<"a", "d", "d", "Y", "e", "a", "r", "s", "(">>), Group(1),
          Text(<<",", " ">>), Group(2), Text(<<")">>)>> >>,
       << <<Lit(<<"A", "D", "D", "_", "t", "o", "D", "a", "t", "e">>),
          Spaces, Lit(<<"(">>), Spaces, Open, LazyExcept({","}), Close,
          Spaces, Lit(<<",">>), Spaces, Quote, Lit(<<"Y">>), Quote, Spaces,
          Lit(<<",">>), Spaces, Open, LazyExcept({")"}), Close, Spaces,
          Lit(<<")">>)>>,
          <<Text(<<"a", "d", "d", "Y", "e", "a", "r", "s", "(">>), Group(1),
          Text(<<",", " ">>), Group(2), Text(<<")">>)>> >>,
       << <<Lit(<<"L", "A", "S", "T", "_", "D", "A", "Y">>), Spaces,
          Lit(<<"(">>), Spaces, Open, LazyExcept({")"}), Close, Spaces,
          Lit(<<")">>)>>,
          <<
          Text(<<"l", "a", "s", "t", "D", "a", "y", "O", "f", "M", "o", "n", "t", "h", "(">>),
          Group(1), Text(<<")">>)>> >>,
       << <<Lit(<<"T", "O", "_", "C", "H", "A", "R">>), Spaces, Lit(<<"(">>),
          Spaces, Open, LazyExcept({","}), Close, Spaces, Lit(<<",">>),
          Spaces, Quote, Lit(<<"D", "A", "Y">>), Quote, Spaces, Lit(<<")">>)>>,
          <<
          Text(<<"c", "a", "s", "e", "(", "d", "a", "y", "O", "f", "W", "e", "e", "k", "(">>),
          Group(1),
          Text(<<")", ",", " ", "1", ",", " ", "'", "S", "u", "n", "d", "a", "y", "'", ",", " ", "2", ",", " ", "'", "M", "o", "n", "d", "a", "y", "'", ",", " ", "3", ",", " ", "'", "T", "u", "e", "s", "d", "a", "y", "'", ",", " ", "4", ",", " ", "'", "W", "e", "d", "n", "e", "s", "d", "a", "y", "'", ",", " ", "5", ",", " ", "'", "T", "h", "u", "r", "s", "d", "a", "y", "'", ",", " ", "6", ",", " ", "'", "F", "r", "i", "d", "a", "y", "'", ",", " ", "7", ",", " ", "'", "S", "a", "t", "u", "r", "d", "a", "y", "'", ")">>)>> >>,
       << <<Lit(<<"T", "O", "_", "C", "H", "A", "R">>), Spaces, Lit(<<"(">>),
          Spaces, Open, LazyExcept({","}), Close, Spaces, Lit(<<",">>),
          Spaces, Quote, Lit(<<"M", "O", "N", "T", "H">>), Quote, Spaces,
          Lit(<<")">>)>>,
          <<Text(<<"t", "o", "S", "t", "r", "i", "n", "g", "(">>), Group(1),
          Text(<<",", " ", "'", "M", "M", "M", "M", "'", ")">>)>> >>,
       << <<Lit(<<"T", "O", "_", "C", "H", "A", "R">>), Spaces, Lit(<<"(">>),
          Spaces, Open, LazyExcept({","}), Close, Spaces, Lit(<<",">>),
          Spaces, Quote, Lit(<<"D", "D", "D">>), Quote, Spaces, Lit(<<")">>)>>,
          <<Text(<<"d", "a", "y", "O", "f", "Y", "e", "a", "r", "(">>),
          Group(1), Text(<<")">>)>> >>,
       << <<Lit(<<"T", "O", "_", "C", "H", "A", "R">>), Spaces, Lit(<<"(">>),
          Spaces, Open, LazyExcept({","}), Close, Spaces, Lit(<<",">>),
          Spaces, Quote, Open, LazyExcept({"'", "\""}), Close, Quote, Spaces,
          Lit(<<")">>)>>,
          <<Text(<<"t", "o", "S", "t", "r", "i", "n", "g", "(">>), Group(1),
          Text(<<",", " ", "'">>), Group(2), Text(<<"'", ")">>)>> >>,
       << <<Lit(<<"T", "O", "_", "D", "A", "T", "E">>), Spaces, Lit(<<"(">>),
          Spaces, Open, LazyExcept({","}), Close, Spaces, Lit(<<",">>),
          Spaces, Quote,
          Lit(<<"M", "M", "/", "D", "D", "/", "Y", "Y", "Y", "Y">>), Quote,
          Spaces, Lit(<<")">>)>>,
          <<Text(<<"t", "o", "D", "a", "t", "e", "(">>), Group(1),
          Text(<<",", " ", "'", "M", "M", "/", "d", "d", "/", "y", "y", "y", "y", "'", ")">>)>> >>,
       << <<Lit(<<"T", "O", "_", "D", "A", "T", "E">>), Spaces, Lit(<<"(">>),
          Spaces, Open, LazyExcept({","}), Close, Spaces, Lit(<<",">>),
          Spaces, Quote,
          Lit(<<"D", "D", "/", "M", "M", "/", "Y", "Y", "Y", "Y">>), Quote,
          Spaces, Lit(<<")">>)>>,
          <<Text(<<"t", "o", "D", "a", "t", "e", "(">>), Group(1),
          Text(<<",", " ", "'", "d", "d", "/", "M", "M", "/", "y", "y", "y", "y", "'", ")">>)>> >>,
       << <<Lit(<<"T", "O", "_", "D", "A", "T", "E">>), Spaces, Lit(<<"(">>),
          Spaces, Open, LazyExcept({","}), Close, Spaces, Lit(<<",">>),
          Spaces, Quote,
          Lit(<<"Y", "Y", "Y", "Y", "-", "M", "M", "-", "D", "D">>), Quote,
          Spaces, Lit(<<")">>)>>,
          <<Text(<<"t", "o", "D", "a", "t", "e", "(">>), Group(1),
          Text(<<",", " ", "'", "y", "y", "y", "y", "-", "M", "M", "-", "d", "d", "'", ")">>)>> >>,
       << <<Lit(<<"T", "O", "_", "D", "A", "T", "E">>), Spaces, Lit(<<"(">>),
          Spaces, Open, LazyExcept({","}), Close, Spaces, Lit(<<",">>),
          Spaces, Quote, Open, LazyExcept({"'", "\""}), Close, Quote, Spaces,
          Lit(<<")">>)>>,
          <<Text(<<"t", "o", "D", "a", "t", "e", "(">>), Group(1),
          Text(<<",", " ", "'">>), Group(2), Text(<<"'", ")">>)>> >>,
       << <<Lit(<<"T", "O", "_", "D", "A", "T", "E">>), Spaces, Lit(<<"(">>),
          Spaces, Open, LazyExcept({")"}), Close, Spaces, Lit(<<")">>)>>,
          <<Text(<<"t", "o", "D", "a", "t", "e", "(">>), Group(1),
          Text(<<")">>)>> >>,
       << <<Lit(<<"S", "Y", "S", "D", "A", "T", "E">>), Spaces, Lit(<<"(">>),
          Spaces, Lit(<<")">>)>>,
          <<
          Text(<<"c", "u", "r", "r", "e", "n", "t", "T", "i", "m", "e", "s", "t", "a", "m", "p", "(", ")">>)>> >>,
       << <<Lit(<<"S", "Y", "S", "D", "A", "T", "E">>)>>,
          <<
          Text(<<"c", "u", "r", "r", "e", "n", "t", "T", "i", "m", "e", "s", "t", "a", "m", "p", "(", ")">>)>> >>,
       << <<
          Lit(<<"C", "U", "R", "R", "E", "N", "T", "_", "D", "A", "T", "E">>),
          Spaces, Lit(<<"(">>), Spaces, Lit(<<")">>)>>,
          <<
          Text(<<"c", "u", "r", "r", "e", "n", "t", "D", "a", "t", "e", "(", ")">>)>> >>,
       << <<
          Lit(<<"C", "U", "R", "R", "E", "N", "T", "_", "T", "I", "M", "E", "S", "T", "A", "M", "P">>),
          Spaces, Lit(<<"(">>), Spaces, Lit(<<")">>)>>,
          <<
          Text(<<"c", "u", "r", "r", "e", "n", "t", "T", "i", "m", "e", "s", "t", "a", "m", "p", "(", ")">>)>> >>,
       << <<Lit(<<"S", "U", "B", "S", "T", "R">>), Spaces, Lit(<<"(">>),
          Spaces, Open, LazyExcept({","}), Close, Spaces, Lit(<<",">>),
          Spaces, Open, LazyExcept({","}), Close, Spaces, Lit(<<",">>),
          Spaces, Open, LazyExcept({")"}), Close, Spaces, Lit(<<")">>)>>,
          <<Text(<<"s", "u", "b", "s", "t", "r", "i", "n", "g", "(">>),
          Group(1), Text(<<",", " ">>), Group(2), Text(<<",", " ">>),
          Group(3), Text(<<")">>)>> >>,
       << <<Lit(<<"S", "U", "B", "S", "T", "R">>), Spaces, Lit(<<"(">>),
          Spaces, Open, LazyExcept({","}), Close, Spaces, Lit(<<",">>),
          Spaces, Open, LazyExcept({")"}), Close, Spaces, Lit(<<")">>)>>,
          <<Text(<<"s", "u", "b", "s", "t", "r", "i", "n", "g", "(">>),
          Group(1), Text(<<",", " ">>), Group(2), Text(<<")">>)>> >>,
       << <<Lit(<<"I", "N", "S", "T", "R">>), Spaces, Lit(<<"(">>), Spaces,
          Open, LazyExcept({","}), Close, Spaces, Lit(<<",">>), Spaces, Open,
          LazyExcept({")"}), Close, Spaces, Lit(<<")">>)>>,
          <<Text(<<"i", "n", "d", "e", "x", "O", "f", "(">>), Group(1),
          Text(<<",", " ">>), Group(2), Text(<<")">>)>> >>,
       << <<
          Lit(<<"R", "E", "P", "L", "A", "C", "E", "_", "C", "H", "A", "R">>),
          Spaces, Lit(<<"(">>), Spaces, Open, LazyExcept({","}), Close,
          Spaces, Lit(<<",">>), Spaces, Open, LazyExcept({","}), Close,
          Spaces, Lit(<<",">>), Spaces, Open, LazyExcept({")"}), Close,
          Spaces, Lit(<<")">>)>>,
          <<Text(<<"r", "e", "p", "l", "a", "c", "e", "(">>), Group(1),
          Text(<<",", " ">>), Group(2), Text(<<",", " ">>), Group(3),
          Text(<<")">>)>> >>,
       << <<Lit(<<"R", "E", "P", "L", "A", "C", "E">>), Spaces, Lit(<<"(">>),
          Spaces, Open, LazyExcept({","}), Close, Spaces, Lit(<<",">>),
          Spaces, Open, LazyExcept({","}), Close, Spaces, Lit(<<",">>),
          Spaces, Open, LazyExcept({")"}), Close, Spaces, Lit(<<")">>)>>,
          <<Text(<<"r", "e", "p", "l", "a", "c", "e", "(">>), Group(1),
          Text(<<",", " ">>), Group(2), Text(<<",", " ">>), Group(3),
          Text(<<")">>)>> >>,
       << <<Lit(<<"C", "O", "N", "C", "A", "T">>), Spaces, Lit(<<"(">>),
          Spaces, Open, LazyExcept({","}), Close, Spaces, Lit(<<",">>),
          Spaces, Open, LazyExcept({")"}), Close, Spaces, Lit(<<")">>)>>,
          <<Text(<<"c", "o", "n", "c", "a", "t", "(">>), Group(1),
          Text(<<",", " ">>), Group(2), Text(<<")">>)>> >>,
       << <<Lit(<<"L", "T", "R", "I", "M">>), Spaces, Lit(<<"(">>), Spaces,
          Open, LazyExcept({","}), Close, Spaces, Lit(<<",">>), Spaces, Open,
          LazyExcept({")"}), Close, Spaces, Lit(<<")">>)>>,
          <<Text(<<"l", "t", "r", "i", "m", "(">>), Group(1),
          Text(<<",", " ">>), Group(2), Text(<<")">>)>> >>,
       << <<Lit(<<"L", "T", "R", "I", "M">>), Spaces, Lit(<<"(">>), Spaces,
          Open, LazyExcept({")"}), Close, Spaces, Lit(<<")">>)>>,
          <<Text(<<"l", "t", "r", "i", "m", "(">>), Group(1), Text(<<")">>)>> >>,
       << <<Lit(<<"R", "T", "R", "I", "M">>), Spaces, Lit(<<"(">>), Spaces,
          Open, LazyExcept({","}), Close, Spaces, Lit(<<",">>), Spaces, Open,
          LazyExcept({")"}), Close, Spaces, Lit(<<")">>)>>,
          <<Text(<<"r", "t", "r", "i", "m", "(">>), Group(1),
          Text(<<",", " ">>), Group(2), Text(<<")">>)>> >>,
       << <<Lit(<<"R", "T", "R", "I", "M">>), Spaces, Lit(<<"(">>), Spaces,
          Open, LazyExcept({")"}), Close, Spaces, Lit(<<")">>)>>,
          <<Text(<<"r", "t", "r", "i", "m", "(">>), Group(1), Text(<<")">>)>> >>,
       << <<Lit(<<"T", "R", "I", "M">>), Spaces, Lit(<<"(">>), Spaces, Open,
          LazyExcept({","}), Close, Spaces, Lit(<<",">>), Spaces, Open,
          LazyExcept({")"}), Close, Spaces, Lit(<<")">>)>>,
          <<Text(<<"t", "r", "i", "m", "(">>), Group(1), Text(<<",", " ">>),
          Group(2), Text(<<")">>)>> >>,
       << <<Lit(<<"T", "R", "I", "M">>), Spaces, Lit(<<"(">>), Spaces, Open,
          LazyExcept({")"}), Close, Spaces, Lit(<<")">>)>>,
          <<Text(<<"t", "r", "i", "m", "(">>), Group(1), Text(<<")">>)>> >>,
       << <<Lit(<<"U", "P", "P", "E", "R">>), Spaces, Lit(<<"(">>), Spaces,
          Open, LazyExcept({")"}), Close, Spaces, Lit(<<")">>)>>,
          <<Text(<<"u", "p", "p", "e", "r", "(">>), Group(1), Text(<<")">>)>> >>,
       << <<Lit(<<"L", "O", "W", "E", "R">>), Spaces, Lit(<<"(">>), Spaces,
          Open, LazyExcept({")"}), Close, Spaces, Lit(<<")">>)>>,
          <<Text(<<"l", "o", "w", "e", "r", "(">>), Group(1), Text(<<")">>)>> >>,
       << <<Lit(<<"L", "E", "N", "G", "T", "H">>), Spaces, Lit(<<"(">>),
          Spaces, Open, LazyExcept({")"}), Close, Spaces, Lit(<<")">>)>>,
          <<Text(<<"l", "e", "n", "g", "t", "h", "(">>), Group(1),
          Text(<<")">>)>> >>,
       << <<Lit(<<"L", "P", "A", "D">>), Spaces, Lit(<<"(">>), Spaces, Open,
          LazyExcept({","}), Close, Spaces, Lit(<<",">>), Spaces, Open,
          LazyExcept({","}), Close, Spaces, Lit(<<",">>), Spaces, Open,
          LazyExcept({")"}), Close, Spaces, Lit(<<")">>)>>,
          <<Text(<<"l", "p", "a", "d", "(">>), Group(1), Text(<<",", " ">>),
          Group(2), Text(<<",", " ">>), Group(3), Text(<<")">>)>> >>,
       << <<Lit(<<"R", "P", "A", "D">>), Spaces, Lit(<<"(">>), Spaces, Open,
          LazyExcept({","}), Close, Spaces, Lit(<<",">>), Spaces, Open,
          LazyExcept({","}), Close, Spaces, Lit(<<",">>), Spaces, Open,
          LazyExcept({")"}), Close, Spaces, Lit(<<")">>)>>,
          <<Text(<<"r", "p", "a", "d", "(">>), Group(1), Text(<<",", " ">>),
          Group(2), Text(<<",", " ">>), Group(3), Text(<<")">>)>> >>,
       << <<Lit(<<"T", "O", "_", "I", "N", "T", "E", "G", "E", "R">>),
          Spaces, Lit(<<"(">>), Spaces, Open, LazyExcept({")"}), Close,
          Spaces, Lit(<<")">>)>>,
          <<Text(<<"t", "o", "I", "n", "t", "e", "g", "e", "r", "(">>),
          Group(1), Text(<<")">>)>> >>,
       << <<Lit(<<"T", "O", "_", "D", "E", "C", "I", "M", "A", "L">>),
          Spaces, Lit(<<"(">>), Spaces, Open, LazyExcept({")"}), Close,
          Spaces, Lit(<<")">>)>>,
          <<Text(<<"t", "o", "D", "e", "c", "i", "m", "a", "l", "(">>),
          Group(1), Text(<<")">>)>> >>,
       << <<Lit(<<"T", "O", "_", "F", "L", "O", "A", "T">>), Spaces,
          Lit(<<"(">>), Spaces, Open, LazyExcept({")"}), Close, Spaces,
          Lit(<<")">>)>>,
          <<Text(<<"t", "o", "F", "l", "o", "a", "t", "(">>), Group(1),
          Text(<<")">>)>> >>,
       << <<Lit(<<"T", "O", "_", "C", "H", "A", "R">>), Spaces, Lit(<<"(">>),
          Spaces, Open, LazyExcept({")"}), Close, Spaces, Lit(<<")">>)>>,
          <<Text(<<"t", "o", "S", "t", "r", "i", "n", "g", "(">>), Group(1),
          Text(<<")">>)>> >>,
       << <<Lit(<<"I", "I", "F">>), Spaces, Lit(<<"(">>), Spaces, Open,
          LazyExcept({","}), Close, Spaces, Lit(<<",">>), Spaces, Open,
          LazyExcept({","}), Close, Spaces, Lit(<<",">>), Spaces, Open,
          LazyExcept({")"}), Close, Spaces, Lit(<<")">>)>>,
          <<Text(<<"i", "i", "f", "(">>), Group(1), Text(<<",", " ">>),
          Group(2), Text(<<",", " ">>), Group(3), Text(<<")">>)>> >>,
       << <<Lit(<<"S", "U", "M">>), Spaces, Lit(<<"(">>), Spaces, Open,
          LazyExcept({")"}), Close, Spaces, Lit(<<")">>)>>,
          <<Text(<<"s", "u", "m", "(">>), Group(1), Text(<<")">>)>> >>,
       << <<Lit(<<"A", "V", "G">>), Spaces, Lit(<<"(">>), Spaces, Open,
          LazyExcept({")"}), Close, Spaces, Lit(<<")">>)>>,
          <<Text(<<"a", "v", "g", "(">>), Group(1), Text(<<")">>)>> >>,
       << <<Lit(<<"C", "O", "U", "N", "T">>), Spaces, Lit(<<"(">>), Spaces,
          Open, LazyExcept({")"}), Close, Spaces, Lit(<<")">>)>>,
          <<Text(<<"c", "o", "u", "n", "t", "(">>), Group(1), Text(<<")">>)>> >>,
       << <<Lit(<<"C", "O", "U", "N", "T">>), Spaces, Lit(<<"(">>), Spaces,
          Lit(<<"*">>), Spaces, Lit(<<")">>)>>,
          <<Text(<<"c", "o", "u", "n", "t", "(", ")">>)>> >>,
       << <<Lit(<<"M", "I", "N">>), Spaces, Lit(<<"(">>), Spaces, Open,
          LazyExcept({")"}), Close, Spaces, Lit(<<")">>)>>,
          <<Text(<<"m", "i", "n", "(">>), Group(1), Text(<<")">>)>> >>,
       << <<Lit(<<"M", "A", "X">>), Spaces, Lit(<<"(">>), Spaces, Open,
          LazyExcept({")"}), Close, Spaces, Lit(<<")">>)>>,
          <<Text(<<"m", "a", "x", "(">>), Group(1), Text(<<")">>)>> >>,
       << <<Lit(<<"F", "I", "R", "S", "T">>), Spaces, Lit(<<"(">>), Spaces,
          Open, LazyExcept({")"}), Close, Spaces, Lit(<<")">>)>>,
          <<Text(<<"f", "i", "r", "s", "t", "(">>), Group(1), Text(<<")">>)>> >>,
       << <<Lit(<<"L", "A", "S", "T">>), Spaces, Lit(<<"(">>), Spaces, Open,
          LazyExcept({")"}), Close, Spaces, Lit(<<")">>)>>,
          <<Text(<<"l", "a", "s", "t", "(">>), Group(1), Text(<<")">>)>> >>,
       << <<Lit(<<"R", "O", "U", "N", "D">>), Spaces, Lit(<<"(">>), Spaces,
          Open, LazyExcept({","}), Close, Spaces, Lit(<<",">>), Spaces, Open,
          LazyExcept({")"}), Close, Spaces, Lit(<<")">>)>>,
          <<Text(<<"r", "o", "u", "n", "d", "(">>), Group(1),
          Text(<<",", " ">>), Group(2), Text(<<")">>)>> >>,
       << <<Lit(<<"R", "O", "U", "N", "D">>), Spaces, Lit(<<"(">>), Spaces,
          Open, LazyExcept({")"}), Close, Spaces, Lit(<<")">>)>>,
          <<Text(<<"r", "o", "u", "n", "d", "(">>), Group(1), Text(<<")">>)>> >>,
       << <<Lit(<<"C", "E", "I", "L">>), Spaces, Lit(<<"(">>), Spaces, Open,
          LazyExcept({")"}), Close, Spaces, Lit(<<")">>)>>,
          <<Text(<<"c", "e", "i", "l", "(">>), Group(1), Text(<<")">>)>> >>,
       << <<Lit(<<"F", "L", "O", "O", "R">>), Spaces, Lit(<<"(">>), Spaces,
          Open, LazyExcept({")"}), Close, Spaces, Lit(<<")">>)>>,
          <<Text(<<"f", "l", "o", "o", "r", "(">>), Group(1), Text(<<")">>)>> >>,
       << <<Lit(<<"A", "B", "S">>), Spaces, Lit(<<"(">>), Spaces, Open,
          LazyExcept({")"}), Close, Spaces, Lit(<<")">>)>>,
          <<Text(<<"a", "b", "s", "(">>), Group(1), Text(<<")">>)>> >>,
       << <<Lit(<<"P", "O", "W", "E", "R">>), Spaces, Lit(<<"(">>), Spaces,
          Open, LazyExcept({","}), Close, Spaces, Lit(<<",">>), Spaces, Open,
          LazyExcept({")"}), Close, Spaces, Lit(<<")">>)>>,
          <<Text(<<"p", "o", "w", "e", "r", "(">>), Group(1),
          Text(<<",", " ">>), Group(2), Text(<<")">>)>> >>,
       << <<Lit(<<"S", "Q", "R", "T">>), Spaces, Lit(<<"(">>), Spaces, Open,
          LazyExcept({")"}), Close, Spaces, Lit(<<")">>)>>,
          <<Text(<<"s", "q", "r", "t", "(">>), Group(1), Text(<<")">>)>> >>,
       << <<Lit(<<"I", "S", "N", "U", "L", "L">>), Spaces, Lit(<<"(">>),
          Spaces, Open, LazyExcept({")"}), Close, Spaces, Lit(<<")">>)>>,
          <<Text(<<"i", "s", "N", "u", "l", "l", "(">>), Group(1),
          Text(<<")">>)>> >>,
       << <<Lit(<<"I", "S", "_", "N", "U", "L", "L">>), Spaces, Lit(<<"(">>),
          Spaces, Open, LazyExcept({")"}), Close, Spaces, Lit(<<")">>)>>,
          <<Text(<<"i", "s", "N", "u", "l", "l", "(">>), Group(1),
          Text(<<")">>)>> >>,
       << <<Lit(<<"N", "V", "L">>), Spaces, Lit(<<"(">>), Spaces, Open,
          LazyExcept({","}), Close, Spaces, Lit(<<",">>), Spaces, Open,
          LazyExcept({")"}), Close, Spaces, Lit(<<")">>)>>,
          <<Text(<<"c", "o", "a", "l", "e", "s", "c", "e", "(">>), Group(1),
          Text(<<",", " ">>), Group(2), Text(<<")">>)>> >>,
       << <<Lit(<<"C", "O", "A", "L", "E", "S", "C", "E">>), Spaces,
          Lit(<<"(">>), Spaces, Open, LazyExcept({")"}), Close, Spaces,
          Lit(<<")">>)>>,
          <<Text(<<"c", "o", "a", "l", "e", "s", "c", "e", "(">>), Group(1),
          Text(<<")">>)>> >> >>

\* _initialize_operator_mappings: applied with the case as written
operator_mappings ==
    << << <<Boundary, Lit(<<"A", "N", "D">>), Boundary>>, <<Text(<<"&", "&">>)>> >>,
       << <<Boundary, Lit(<<"O", "R">>), Boundary>>, <<Text(<<"|", "|">>)>> >>,
       << <<Boundary, Lit(<<"N", "O", "T">>), Boundary>>, <<Text(<<"!">>)>> >>,
       << <<Lit(<<"<", ">">>)>>, <<Text(<<"!", "=">>)>> >>,
       << <<Lit(<<"=", "=", "=">>)>>, <<Text(<<"=", "=">>)>> >> >>

\* the for loop over operator_mappings
apply_operator_mappings(text) ==
    LET F[k \in 0..Len(operator_mappings)] ==
            IF k = 0 THEN text
            ELSE Sub(operator_mappings[k][1], operator_mappings[k][2], F[k - 1], 1, FALSE)
    IN  F[Len(operator_mappings)]

\* the operand of _handle_concatenation's pattern:
\* ['\"].*?['\"]|[\w\.]+(?:\([^)]*\))?
ConcatOperand ==
    Alt(<< <<Quote, Class({"\n"}, TRUE, 0, 0, TRUE), Quote>>,
           <<Class(WordChars \cup {"."}, FALSE, 1, 0, FALSE),
             Alt(<< <<Lit(<<"(">>), Class({")"}, TRUE, 0, 0, FALSE), Lit(<<")">>)>>,
                    <<>> >>)>> >>)

ConcatPattern ==
    <<Open, ConcatOperand, Close, Spaces, Lit(<<"|", "|">>), Spaces, Open, ConcatOperand, Close>>

\* _handle_concatenation: at most max_iterations substitutions of the
\* pattern by concat(\1, \2)
RECURSIVE handle_concatenation_loop(_, _)
handle_concatenation_loop(expression, iteration) ==
    IF \/ ~Contains(expression, <<"|", "|">>)
       \/ iteration >= 20
       \/ ~Search(ConcatPattern, expression, 1, FALSE).ok
    THEN expression
    ELSE handle_concatenation_loop(
             Sub(ConcatPattern,
                 <<Text(<<"c", "o", "n", "c", "a", "t", "(">>), Group(1), Text(<<",", " ">>), Group(2), Text(<<")">>)>>,
                 expression, 1, FALSE),
             iteration + 1)

handle_concatenation(expression) == handle_concatenation_loop(expression, 0)

\* ([^\s=!<>]+)\s*=\s*([^\s=][^=]*?)(?=\s*(?:&&|\|\||,|\)|$))
ComparisonPattern ==
    <<Open, Class(SpaceChars \cup {"=", "!", "<", ">"}, TRUE, 1, 0, FALSE), Close,
      Spaces, Lit(<<"=">>), Spaces,
      Open, Class(SpaceChars \cup {"="}, TRUE, 1, 1, FALSE),
            Class({"="}, TRUE, 0, 0, TRUE), Close,
      Ahead(<< <<Spaces, Alt(<< <<Lit(<<"&", "&">>)>>, <<Lit(<<"|", "|">>)>>, <<Lit(<<",">>)>>,
                               <<Lit(<<")">>)>>, <<End>> >>)>> >>)>>

\* _convert_comparison_operators
convert_comparison_operators(expression) ==
    Sub(ComparisonPattern, <<Group(1), Text(<<" ", "=", "=", " ">>), Group(2)>>, expression, 1, FALSE)

\* the loop that looks for the parenthesis closing the one before index i,
\* counting parentheses wherever they stand; 0 where none closes it
RECURSIVE closing_paren(_, _, _)
closing_paren(expression, i, paren_count) ==
    IF paren_count = 0 THEN i - 1
    ELSE IF i > Len(expression) THEN 0
    ELSE closing_paren(expression, i + 1,
                       IF expression[i] = "(" THEN paren_count + 1
                       ELSE IF expression[i] = ")" THEN paren_count - 1
                       ELSE paren_count)

\* the body of the loop of _split_function_args for one character
split_function_char(p, char) ==
    LET quoted == p.in_single_quote \/ p.in_double_quote
    IN  IF char = "'" /\ ~p.in_double_quote
        THEN [p EXCEPT !.in_single_quote = ~@,
                       !.current_arg = Append(@, char)]
        ELSE IF char = "\"" /\ ~p.in_single_quote
        THEN [p EXCEPT !.in_double_quote = ~@,
                       !.current_arg = Append(@, char)]
        ELSE IF char = "(" /\ ~quoted
        THEN [p EXCEPT !.paren_depth = @ + 1,
                       !.current_arg = Append(@, char)]
        ELSE IF char = ")" /\ ~quoted
        THEN [p EXCEPT !.paren_depth = @ - 1,
                       !.current_arg = Append(@, char)]
        ELSE IF char = "," /\ p.paren_depth = 0 /\ ~quoted
        THEN [p EXCEPT !.args = Append(@, p.current_arg),
                       !.current_arg = <<>>]
        ELSE [p EXCEPT !.current_arg = Append(@, char)]

\* the loop of _split_function_args over the characters first..last, entered
\* with the values p (paren_depth an integer): the characters up to the
\* middle one, then the others
RECURSIVE split_function_chars(_, _, _, _)
split_function_chars(text, p, first, last) ==
    IF first > last \/ p.paren_depth \notin Int THEN p
    ELSE IF first = last THEN split_function_char(p, text[first])
    ELSE LET middle == (first + last) \div 2
         IN  split_function_chars(text, split_function_chars(text, p, first, middle),
                                  middle + 1, last)

\* _split_function_args
split_function_args(text) ==
    LET ended(last) ==
            IF last.current_arg # <<>> THEN Append(last.args, last.current_arg)
            ELSE last.args
    IN  ended(split_function_chars(text,
                                   [args |-> <<>>, current_arg |-> <<>>, paren_depth |-> 0,
                                    in_single_quote |-> FALSE, in_double_quote |-> FALSE],
                                   1, Len(text)))

\* _find_last_arg_separator: the index of the comma, 0 for -1
find_last_arg_separator(text) ==
    LET n == Len(text)
        \* the state after the characters n, n - 1, ..., n - k + 1
        F[k \in 0..n] ==
            IF k = 0
            THEN [found |-> 0, paren_depth |-> 0,
                  in_single_quote |-> FALSE, in_double_quote |-> FALSE]
            ELSE LET p == F[k - 1]
                     i == n - k + 1
                     char == text[i]
                     q == IF char = "'" /\ ~p.in_double_quote
                          THEN [p EXCEPT !.in_single_quote = ~@]
                          ELSE IF char = "\"" /\ ~p.in_single_quote
                          THEN [p EXCEPT !.in_double_quote = ~@]
                          ELSE p
                 IN  IF p.found # 0 THEN p
                     ELSE IF q.in_single_quote \/ q.in_double_quote THEN q
                     ELSE LET r == [q EXCEPT !.paren_depth =
                                       IF char = ")" THEN @ + 1
                                       ELSE IF char = "(" THEN @ - 1 ELSE @]
                          IN  IF char = "," /\ r.paren_depth = 0
                              THEN [r EXCEPT !.found = i]
                              ELSE r
    IN  F[n].found

\* ', '.join(args)
RECURSIVE JoinArgs(_)
JoinArgs(args) ==
    IF args = <<>> THEN <<>>
    ELSE IF Len(args) = 1 THEN args[1]
    ELSE args[1] \o <<",", " ">> \o JoinArgs(Tail(args))

\* the rewrites _translate_decode makes in one argument
decode_argument(arg) ==
    convert_comparison_operators(apply_operator_mappings(handle_concatenation(arg)))

\* DECODE\s*\(
DecodePattern == <<Lit(<<"D", "E", "C", "O", "D", "E">>), Spaces, Lit(<<"(">>)>>

\* _translate_decode: the loop from its iteration-th round on
RECURSIVE translate_decode_loop(_, _)
translate_decode_loop(expression, iteration) ==
    LET case_args(processed_args) ==
            IF Upper(Strip(processed_args[1])) = <<"T", "R", "U", "E">>
            THEN Tail(processed_args) ELSE processed_args
        with_args(match, paren_end, args) ==
            IF Len(args) < 3 THEN expression
            ELSE translate_decode_loop(
                     SubSeq(expression, 1, match.start - 1)
                     \o <<"c", "a", "s", "e", "(">>
                     \o JoinArgs(case_args([k \in DOMAIN args |-> decode_argument(args[k])]))
                     \o <<")">>
                     \o SubSeq(expression, paren_end + 1, Len(expression)),
                     iteration + 1)
        with_paren(match, paren_end) ==
            IF paren_end = 0 THEN expression
            ELSE with_args(match, paren_end,
                           split_function_args(SubSeq(expression, match.end, paren_end - 1)))
        with_match(match) ==
            IF iteration >= 20 \/ ~match.ok THEN expression
            ELSE with_paren(match, closing_paren(expression, match.end, 1))
    IN  with_match(Search(DecodePattern, expression, 1, TRUE))

translate_decode(expression) == translate_decode_loop(expression, 0)

\* time_unit_map of _translate_add_to_date
time_unit_map ==
    << <<<<"D", "D">>, <<"a", "d", "d", "D", "a", "y", "s">>>>, <<<<"M", "M">>, <<"a", "d", "d", "M", "o", "n", "t", "h", "s">>>>, <<<<"Y", "Y", "Y", "Y">>, <<"a", "d", "d", "Y", "e", "a", "r", "s">>>>,
       <<<<"Y", "Y">>, <<"a", "d", "d", "Y", "e", "a", "r", "s">>>>, <<<<"Y">>, <<"a", "d", "d", "Y", "e", "a", "r", "s">>>>, <<<<"H", "H">>, <<"a", "d", "d", "H", "o", "u", "r", "s">>>>,
       <<<<"M", "I">>, <<"a", "d", "d", "M", "i", "n", "u", "t", "e", "s">>>>, <<<<"S", "S">>, <<"a", "d", "d", "S", "e", "c", "o", "n", "d", "s">>>> >>

\* date_part_map of _translate_get_date_part
date_part_map ==
    << <<<<"D", "D">>, <<"d", "a", "y", "O", "f", "M", "o", "n", "t", "h">>>>, <<<<"M", "M">>, <<"m", "o", "n", "t", "h">>>>, <<<<"Y", "Y", "Y", "Y">>, <<"y", "e", "a", "r">>>>,
       <<<<"Y", "Y">>, <<"y", "e", "a", "r">>>>, <<<<"Y">>, <<"y", "e", "a", "r">>>>, <<<<"D", "D", "D">>, <<"d", "a", "y", "O", "f", "Y", "e", "a", "r">>>>,
       <<<<"W", "W">>, <<"w", "e", "e", "k", "O", "f", "Y", "e", "a", "r">>>>, <<<<"H", "H">>, <<"h", "o", "u", "r">>>>, <<<<"M", "I">>, <<"m", "i", "n", "u", "t", "e">>>>,
       <<<<"S", "S">>, <<"s", "e", "c", "o", "n", "d">>>> >>

\* ^['"]([A-Z]+)['"]$ matched from the start of the text
UnitMatch(text, ic) ==
    Match(<<Quote, Open,
            Class(Range(UpperLetters) \cup (IF ic THEN Range(LowerLetters) ELSE {}),
                  FALSE, 1, 0, FALSE),
            Close, Quote, End>>, text, 1, <<>>, ic)

\* ADD_(TO_)?DATE\s*\(|ADD_toDate\s*\(
AddToDatePattern ==
    <<Alt(<< <<Lit(<<"A", "D", "D", "_">>), Alt(<< <<Lit(<<"T", "O", "_">>)>>, <<>> >>), Lit(<<"D", "A", "T", "E">>),
               Spaces, Lit(<<"(">>)>>,
             <<Lit(<<"A", "D", "D", "_", "t", "o", "D", "a", "t", "e">>), Spaces, Lit(<<"(">>)>> >>)>>

\* _translate_add_to_date: the loop from its iteration-th round on
RECURSIVE translate_add_to_date_loop(_, _)
translate_add_to_date_loop(expression, iteration) ==
    LET with_unit(match, paren_end, args, time_unit) ==
            IF time_unit \notin DictKeys(time_unit_map) THEN expression
            ELSE translate_add_to_date_loop(
                     SubSeq(expression, 1, match.start - 1)
                     \o DictGet(time_unit_map, time_unit) \o <<"(">> \o Strip(args[1])
                     \o <<",", " ">> \o Strip(args[3]) \o <<")">>
                     \o SubSeq(expression, paren_end + 1, Len(expression)),
                     iteration + 1)
        with_unit_match(match, paren_end, args, unit_arg, unit_match) ==
            IF ~unit_match.ok THEN expression
            ELSE with_unit(match, paren_end, args,
                           Upper(SubSeq(unit_arg, unit_match.caps[1][1],
                                        unit_match.caps[1][2])))
        with_unit_arg(match, paren_end, args, unit_arg) ==
            with_unit_match(match, paren_end, args, unit_arg, UnitMatch(unit_arg, TRUE))
        with_args(match, paren_end, args) ==
            IF Len(args) # 3 THEN expression
            ELSE with_unit_arg(match, paren_end, args, Strip(args[2]))
        with_paren(match, paren_end) ==
            IF paren_end = 0 THEN expression
            ELSE with_args(match, paren_end,
                           split_function_args(SubSeq(expression, match.end, paren_end - 1)))
        with_match(match) ==
            IF iteration >= 20 \/ ~match.ok THEN expression
            ELSE with_paren(match, closing_paren(expression, match.end, 1))
    IN  with_match(Search(AddToDatePattern, expression, 1, TRUE))

translate_add_to_date(expression) == translate_add_to_date_loop(expression, 0)

\* _translate_get_date_part: the loop from its iteration-th round on
RECURSIVE translate_get_date_part_loop(_, _)
translate_get_date_part_loop(expression, iteration) ==
    LET with_part(match, paren_end, arg1, date_part) ==
            IF date_part \notin DictKeys(date_part_map) THEN expression
            ELSE translate_get_date_part_loop(
                     SubSeq(expression, 1, match.start - 1)
                     \o DictGet(date_part_map, date_part) \o <<"(">> \o arg1 \o <<")">>
                     \o SubSeq(expression, paren_end + 1, Len(expression)),
                     iteration + 1)
        with_arg2_match(match, paren_end, arg1, arg2, arg2_match) ==
            IF ~arg2_match.ok THEN expression
            ELSE with_part(match, paren_end, arg1,
                           Upper(SubSeq(arg2, arg2_match.caps[1][1],
                                        arg2_match.caps[1][2])))
        with_arg2(match, paren_end, arg1, arg2) ==
            with_arg2_match(match, paren_end, arg1, arg2, UnitMatch(arg2, FALSE))
        with_comma(match, paren_end, content, comma_idx) ==
            IF comma_idx = 0 THEN expression
            ELSE with_arg2(match, paren_end,
                           Strip(SubSeq(content, 1, comma_idx - 1)),
                           Strip(SubSeq(content, comma_idx + 1, Len(content))))
        with_content(match, paren_end, content) ==
            with_comma(match, paren_end, content, find_last_arg_separator(content))
        with_paren(match, paren_end) ==
            IF paren_end = 0 THEN expression
            ELSE with_content(match, paren_end,
                              SubSeq(expression, match.end, paren_end - 1))
        with_match(match) ==
            IF iteration >= 20 \/ ~match.ok THEN expression
            ELSE with_paren(match, closing_paren(expression, match.end, 1))
    IN  with_match(Search(<<Lit(<<"G", "E", "T", "_", "D", "A", "T", "E", "_", "P", "A", "R", "T">>),
                            Spaces, Lit(<<"(">>)>>, expression, 1, TRUE))

translate_get_date_part(expression) == translate_get_date_part_loop(expression, 0)

\* the patterns first..last of function_patterns applied in their order
\* under re.IGNORECASE; none of them changes the empty text
RECURSIVE apply_patterns(_, _, _)
apply_patterns(text, first, last) ==
    IF text = <<>> THEN text
    ELSE IF first = last
    THEN LET applied(pattern) == Sub(pattern[1], pattern[2], text, 1, TRUE)
         IN  applied(function_patterns[first])
    ELSE LET middle == (first + last) \div 2
         IN  apply_patterns(apply_patterns(text, first, middle), middle + 1, last)

\* one round of the loop over function_patterns
apply_function_patterns(text) == apply_patterns(text, 1, Len(function_patterns))

\* the rounds until nothing changes, max_iterations at most
RECURSIVE function_rounds(_, _)
function_rounds(translated, iteration) ==
    IF iteration >= 10 THEN translated
    ELSE LET after(next) == IF next = translated THEN translated
                            ELSE function_rounds(next, iteration + 1)
         IN  after(apply_function_patterns(translated))

\* the text after the rewrites of translate, before its validation
rewritten(expression) ==
    LET normalized == Strip(NormalizeSpaces(Strip(expression)))
        unprefixed == StripPortPrefixesFrom(normalized, 1)
        special == translate_get_date_part(translate_add_to_date(
                       translate_decode(unprefixed)))
        concatenated(functions) ==
            IF /\ Contains(functions, <<"|", "|">>)
               /\ ~Contains(Upper(expression), <<"D", "E", "C", "O", "D", "E">>)
            THEN handle_concatenation(functions)
            ELSE functions
    IN  convert_comparison_operators(apply_operator_mappings(
            concatenated(function_rounds(special, 0))))

\* the denylist compared as written, not in upper case
validate_translation_CaseSensitive(translated) ==
    \E k \in DOMAIN forbidden_functions : Contains(translated, forbidden_functions[k])

\* _validate_translation: TRUE when it raises ValueError
validate_translation(translated) ==
    \E k \in DOMAIN forbidden_functions :
        Contains(Upper(translated), Upper(forbidden_functions[k]))

\* ExpressionTranslator.translate: the text returned, or raised with the
\* rewritten text the ValueError reports
translate(expression) ==
    IF Strip(expression) = <<>> THEN [raised |-> FALSE, value |-> expression]
    ELSE LET validated(translated) ==
                 [raised |-> validate_translation(translated), value |-> translated]
         IN  validated(rewritten(expression))

(***************************************************************************)
(* PowerCenterToADFTranslator.translate_expression                         *)
(***************************************************************************)
\* mapping_rules['functions'] (_get_default_rules), in dictionary order
function_mappings ==
    << <<<<"T", "O", "_", "D", "A", "T", "E">>, <<"t", "o", "D", "a", "t", "e">>>>,
       <<<<"T", "O", "_", "C", "H", "A", "R">>, <<"t", "o", "S", "t", "r", "i", "n", "g">>>>,
       <<<<"S", "Y", "S", "D", "A", "T", "E">>, <<"c", "u", "r", "r", "e", "n", "t", "T", "i", "m", "e", "s", "t", "a", "m", "p", "(", ")">>>>,
       <<<<"S", "U", "B", "S", "T", "R">>, <<"s", "u", "b", "s", "t", "r", "i", "n", "g">>>>,
       <<<<"T", "R", "I", "M">>, <<"t", "r", "i", "m">>>>,
       <<<<"U", "P", "P", "E", "R">>, <<"u", "p", "p", "e", "r">>>>,
       <<<<"L", "O", "W", "E", "R">>, <<"l", "o", "w", "e", "r">>>>,
       <<<<"L", "E", "N", "G", "T", "H">>, <<"l", "e", "n", "g", "t", "h">>>>,
       <<<<"D", "E", "C", "O", "D", "E">>, <<"c", "a", "s", "e">>>>,
       <<<<"I", "I", "F">>, <<"i", "i", "f">>>>,
       <<<<"I", "N", "S", "T", "R">>, <<"i", "n", "d", "e", "x", "O", "f">>>>,
       <<<<"C", "O", "N", "C", "A", "T">>, <<"c", "o", "n", "c", "a", "t">>>>,
       <<<<"S", "U", "M">>, <<"s", "u", "m">>>>,
       <<<<"A", "V", "G">>, <<"a", "v", "g">>>>,
       <<<<"C", "O", "U", "N", "T">>, <<"c", "o", "u", "n", "t">>>>,
       <<<<"M", "I", "N">>, <<"m", "i", "n">>>>,
       <<<<"M", "A", "X">>, <<"m", "a", "x">>>>,
       <<<<"F", "I", "R", "S", "T">>, <<"f", "i", "r", "s", "t">>>>,
       <<<<"L", "A", "S", "T">>, <<"l", "a", "s", "t">>>> >>

\* re.compile(re.escape(literal), re.IGNORECASE).sub(replacement, text), from i on
RECURSIVE SubIgnoreCaseFrom(_, _, _, _)
SubIgnoreCaseFrom(literal, replacement, text, i) ==
    IF i > Len(text) THEN <<>>
    ELSE IF OccursAt(literal, Upper(text), i)
         THEN replacement \o SubIgnoreCaseFrom(literal, replacement, text, i + Len(literal))
         ELSE <<text[i]>> \o SubIgnoreCaseFrom(literal, replacement, text, i + 1)

\* text.replace(old, new), from i on
RECURSIVE ReplaceFrom(_, _, _, _)
ReplaceFrom(old, new, text, i) ==
    IF i > Len(text) THEN <<>>
    ELSE IF OccursAt(old, text, i)
         THEN new \o ReplaceFrom(old, new, text, i + Len(old))
         ELSE <<text[i]>> \o ReplaceFrom(old, new, text, i + 1)

\* the except branch of translate_expression: the function names replaced
\* wherever they occur, then `||` replaced by `concat`
fallback_translation(expression) ==
    LET F[k \in 0..Len(function_mappings)] ==
            IF k = 0 THEN expression
            ELSE SubIgnoreCaseFrom(function_mappings[k][1], function_mappings[k][2],
                                   F[k - 1], 1)
    IN  ReplaceFrom(<<"|", "|">>, <<"c", "o", "n", "c", "a", "t">>,
                    F[Len(function_mappings)], 1)

\* PowerCenterToADFTranslator.translate_expression
translate_expression(expression) ==
    IF expression = <<>> THEN <<>>
    ELSE LET caught(r) == IF r.raised THEN fallback_translation(expression)
                          ELSE r.value
         IN  caught(translate(expression))

\* the column_case_map after _translate_expression has gone through the fields
case_map_after(fields, case_map) ==
    LET F[k \in 0..Len(fields)] ==
            IF k = 0 THEN case_map
            ELSE IF fields[k].expression # <<>>
                    /\ Lower(fields[k].name) \notin DictKeys(F[k - 1])
                 THEN DictSet(F[k - 1], Lower(fields[k].name), fields[k].name)
                 ELSE F[k - 1]
    IN  F[Len(fields)]

Column(name, expression) == [name |-> name, expression |-> expression]

\* _translate_expression: the fields that carry an expression
translate_expression_fields(trans, adf_type, case_map) ==
    LET fields == SelectSeq(trans.expressions, LAMBDA f : f.expression # <<>>)
        columns == [k \in DOMAIN fields |->
                      Column(fields[k].name,
                             translate_expression(
                                 normalize_column_casing(
                                     fields[k].expression,
                                     case_map_after(SubSeq(fields, 1, k - 1), case_map))))]
    IN  [results |-> <<[TransDict(trans.name, adf_type) EXCEPT !.columns = columns]>>,
         errors |-> <<>>, warnings |-> <<>>]

\* _translate_filter
translate_filter(trans, adf_type, case_map) ==
    [results |-> <<[TransDict(trans.name, adf_type) EXCEPT
                    !.condition = translate_expression(
                        normalize_column_casing(trans.filter_condition, case_map))]>>,
     errors |-> <<>>, warnings |-> <<>>]

\* _translate_aggregator (aggregate_expressions given, sorted_input False)
translate_aggregator(trans, adf_type, case_map) ==
    LET aggregates == [k \in DOMAIN trans.expressions |->
                         Column(trans.expressions[k].name,
                                translate_expression(
                                    normalize_column_casing(
                                        trans.expressions[k].expression, case_map)))]
    IN  [results |-> <<[TransDict(trans.name, adf_type) EXCEPT
                        !.groupBy = trans.group_by_fields,
                        !.aggregates = aggregates]>>,
         errors |-> <<>>, warnings |-> <<>>]

\* _translate_router: the output groups that carry an expression
translate_router(trans, adf_type) ==
    LET groups == SelectSeq(trans.expressions, LAMBDA g : g.expression # <<>>)
        conditions == [k \in DOMAIN groups |->
                         Column(groups[k].name,
                                translate_expression(groups[k].expression))]
    IN  [results |-> <<[TransDict(trans.name, adf_type) EXCEPT
                        !.conditions = conditions]>>,
         errors |-> <<>>, warnings |-> <<>>]

\* strategy_map.get(strategy, 'insert') of _translate_update_strategy
strategy_action(strategy) ==
    CASE strategy = "DD_INSERT" -> "insert"
      [] strategy = "DD_UPDATE" -> "update"
      [] strategy = "DD_DELETE" -> "delete"
      [] strategy = "DD_REJECT" -> "reject"
      [] OTHER -> "insert"

\* _translate_update_strategy; the key `condition` is absent where the
\* condition is left empty
translate_update_strategy(trans, adf_type) ==
    [results |-> <<[TransDict(trans.name, adf_type) EXCEPT
                    !.action = strategy_action(trans.strategy),
                    !.condition =
                        IF /\ trans.strategy_expression # <<>>
                           /\ Strip(trans.strategy_expression) # Chars(trans.strategy)
                        THEN translate_expression(trans.strategy_expression)
                        ELSE <<>>]>>,
     errors |-> <<>>,
     warnings |-> IF trans.strategy = "DD_REJECT"
                  THEN <<Diagnostic("RejectStrategy", trans.name)>> ELSE <<>>]

\* the kind without ADF type kept as a generic node of its own kind
unsupported_transformation_Kept(trans) ==
    [results |-> <<TransDict(trans.name, trans.type)>>, errors |-> <<>>,
     warnings |-> <<Diagnostic("Unsupported", trans.name)>>]

\* translate_transformation where transformation_mappings has no ADF type
\* for the kind: the warning is appended and None returned
unsupported_transformation(trans) ==
    [results |-> <<>>, errors |-> <<>>,
     warnings |-> <<Diagnostic("Unsupported", trans.name)>>]

\* translate_transformation; results is empty where the method returns None
translate_transformation(trans, md, cm, case_map) ==
    IF trans.type \notin DOMAIN transformation_mappings
    THEN unsupported_transformation(trans)
    ELSE LET adf_type == transformation_mappings[trans.type]
         IN  CASE trans.type = "Joiner" -> translate_joiner(trans, adf_type, md, cm)
               [] trans.type = "Expression" ->
                      translate_expression_fields(trans, adf_type, case_map)
               [] trans.type = "Filter" -> translate_filter(trans, adf_type, case_map)
               [] trans.type = "Aggregator" ->
                      translate_aggregator(trans, adf_type, case_map)
               [] trans.type = "Router" -> translate_router(trans, adf_type)
               [] trans.type \in {"Lookup", "Lookup Procedure"} ->
                      translate_lookup(trans, adf_type, md, cm)
               [] trans.type = "Update Strategy" ->
                      translate_update_strategy(trans, adf_type)
               [] OTHER -> translate_plain(trans, adf_type)

(***************************************************************************)
(* ADFScriptGenerator._apply_column_disambiguation                         *)
(***************************************************************************)
\* the merged map of the Lookups among current_transformations
disambiguation_map(current_transformations) ==
    LET F[k \in 0..Len(current_transformations)] ==
            IF k = 0 THEN <<>>
            ELSE IF current_transformations[k].type = "Lookup"
                 THEN DictUpdate(F[k - 1], current_transformations[k].columnDisambiguation)
                 ELSE F[k - 1]
    IN  F[Len(current_transformations)]

\* sorted(items, key=lambda x: len(x[0]), reverse=True): stable
SortRules(d) ==
    LET maxlen == IF d = <<>> THEN 0
                  ELSE CHOOSE n \in {Len(d[i][1]) : i \in DOMAIN d} :
                          \A i \in DOMAIN d : Len(d[i][1]) <= n
        F[k \in 0..(maxlen + 1)] ==
            IF k = 0 THEN <<>>
            ELSE F[k - 1] \o SelectSeq(d, LAMBDA pr : Len(pr[1]) = maxlen + 1 - k)
    IN  F[maxlen + 1]

\* a match of r'(?<!@)\b' + re.escape(old_col) + r'\b' starting at position i
RuleMatchesAt(old_col, text, i) ==
    /\ OccursAt(old_col, text, i)
    /\ ~(i > 1 /\ text[i - 1] = "@")
    /\ WordBoundary(text, i)
    /\ WordBoundary(text, i + Len(old_col))

\* re.sub(pattern, new_col, text): leftmost non-overlapping matches, from i on
RECURSIVE SubFrom(_, _, _, _)
SubFrom(old_col, new_col, text, i) ==
    IF i > Len(text) THEN <<>>
    ELSE IF RuleMatchesAt(old_col, text, i)
         THEN new_col \o SubFrom(old_col, new_col, text, i + Len(old_col))
         ELSE <<text[i]>> \o SubFrom(old_col, new_col, text, i + 1)

RECURSIVE ApplyRules(_, _)
ApplyRules(rules, text) ==
    IF rules = <<>> THEN text
    ELSE ApplyRules(Tail(rules), SubFrom(Head(rules)[1], Head(rules)[2], text, 1))

apply_column_disambiguation(expression, current_transformations) ==
    ApplyRules(SortRules(disambiguation_map(current_transformations)), expression)

(***************************************************************************)
(* ADFScriptGenerator: one script block per transformation                 *)
(***************************************************************************)
\* a script block: the streams named before the keyword, the keyword, the
\* expressions in the order of their lines, and the name after `~>`
Block(kind, inputs, name, groupBy, exprs) ==
    [kind |-> kind, inputs |-> inputs, name |-> name, groupBy |-> groupBy,
     exprs |-> exprs]

Line(name, expression) == [name |-> name, expression |-> expression]

Emitted(script, errs, warns) == [script |-> script, errors |-> errs, warnings |-> warns]

\* the warnings of the validate_adf_expression calls on a list of lines
InvalidWarnings(node, lines) ==
    LET F[k \in 0..Len(lines)] ==
            IF k = 0 THEN <<>>
            ELSE IF validate_adf_expression(lines[k].expression) THEN F[k - 1]
                 ELSE Append(F[k - 1], Diagnostic("InvalidExpression", node))
    IN  F[Len(lines)]

\* every column kept, the passthrough ones too
generate_derived_column_script_KeepAll(trans, prev, processed) ==
    LET lines == [i \in DOMAIN trans.columns |->
                     Line(trans.columns[i].name,
                          apply_column_disambiguation(trans.columns[i].expression,
                                                      processed))]
    IN  Emitted(<<Block("derive", <<prev>>, trans.name, <<>>, lines)>>,
                <<>>, InvalidWarnings(trans.name, lines))

\* _generate_derived_column_script
generate_derived_column_script(trans, prev, processed) ==
    LET filtered_columns ==
            SelectSeq(trans.columns, LAMBDA col : Strip(col.expression) # col.name)
        lines == [i \in DOMAIN filtered_columns |->
                     Line(filtered_columns[i].name,
                          apply_column_disambiguation(filtered_columns[i].expression,
                                                      processed))]
    IN  Emitted(<<Block("derive", <<prev>>, trans.name, <<>>, lines)>>,
                <<>>, InvalidWarnings(trans.name, lines))

\* _generate_filter_script
generate_filter_script(trans, prev, processed) ==
    LET lines == <<Line(<<>>,
                        apply_column_disambiguation(trans.condition, processed))>>
    IN  Emitted(<<Block("filter", <<prev>>, trans.name, <<>>, lines)>>,
                <<>>, InvalidWarnings(trans.name, lines))

\* agg_functions of _normalize_aggregate_function_names
agg_functions ==
    << <<"S", "U", "M">>,
       <<"A", "V", "G">>,
       <<"C", "O", "U", "N", "T">>,
       <<"M", "I", "N">>,
       <<"M", "A", "X">>,
       <<"F", "I", "R", "S", "T">>,
       <<"L", "A", "S", "T">>,
       <<"S", "T", "D", "D", "E", "V">>,
       <<"V", "A", "R", "I", "A", "N", "C", "E">>,
       <<"M", "E", "D", "I", "A", "N">>,
       <<"P", "E", "R", "C", "E", "N", "T", "I", "L", "E">>,
       <<"C", "O", "U", "N", "T", "_", "D", "I", "S", "T", "I", "N", "C", "T">>,
       <<"C", "O", "L", "L", "E", "C", "T", "_", "L", "I", "S", "T">>,
       <<"C", "O", "L", "L", "E", "C", "T", "_", "S", "E", "T">> >>

\* a match of r'\b' + func + r'\b' with re.IGNORECASE starting at position i
FuncMatchesAt(func, text, i) ==
    /\ i + Len(func) - 1 <= Len(text)
    /\ \A k \in DOMAIN func : ToUpper(text[i + k - 1]) = func[k]
    /\ WordBoundary(text, i)
    /\ WordBoundary(text, i + Len(func))

RECURSIVE LowerFuncFrom(_, _, _)
LowerFuncFrom(func, text, i) ==
    IF i > Len(text) THEN <<>>
    ELSE IF FuncMatchesAt(func, text, i)
         THEN Lower(func) \o LowerFuncFrom(func, text, i + Len(func))
         ELSE <<text[i]>> \o LowerFuncFrom(func, text, i + 1)

\* _normalize_aggregate_function_names
normalize_aggregate_function_names(expression) ==
    LET F[k \in 0..Len(agg_functions)] ==
            IF k = 0 THEN expression
            ELSE LowerFuncFrom(agg_functions[k], F[k - 1], 1)
    IN  F[Len(agg_functions)]

\* _generate_aggregate_script; without aggregates no line declares the name
generate_aggregate_script(trans, prev, processed) ==
    LET group_by == [i \in DOMAIN trans.groupBy |->
                        apply_column_disambiguation(trans.groupBy[i], processed)]
        disamb   == [i \in DOMAIN trans.aggregates |->
                        Line(trans.aggregates[i].name,
                             apply_column_disambiguation(trans.aggregates[i].expression,
                                                         processed))]
        lines    == [i \in DOMAIN disamb |->
                        LET e == normalize_aggregate_function_names(disamb[i].expression)
                        IN  Line(disamb[i].name,
                                 IF Strip(e) = disamb[i].name
                                 THEN <<"f", "i", "r", "s", "t", "(">> \o e \o <<")">>
                                 ELSE e)]
    IN  Emitted(<<Block("aggregate", <<prev>>,
                        IF lines = <<>> THEN None ELSE trans.name, group_by, lines)>>,
                <<>>, InvalidWarnings(trans.name, disamb))

\* _generate_join_script
generate_join_script(trans, prev) ==
    LET missing == trans.leftInput = None \/ trans.rightInput = None
        left_input  == IF trans.leftInput = None
                       THEN "MISSING_LEFT_INPUT" ELSE trans.leftInput
        right_input == IF trans.rightInput = None
                       THEN "MISSING_RIGHT_INPUT" ELSE trans.rightInput
    IN  Emitted(<<Block("join", <<left_input, right_input>>, trans.name, <<>>, <<>>)>>,
                IF missing THEN <<Diagnostic("JoinNoValidInputs", trans.name)>> ELSE <<>>,
                IF left_input = right_input
                THEN <<Diagnostic("JoinSameInput", trans.name)>> ELSE <<>>)

\* _generate_sort_script (no sort keys)
generate_sort_script(trans, prev) ==
    Emitted(<<Block("sort", <<prev>>, trans.name, <<>>, <<>>)>>, <<>>, <<>>)

\* _generate_conditional_split_script
generate_conditional_split_script(trans, prev) ==
    LET lines == [i \in DOMAIN trans.conditions |->
                     Line(trans.conditions[i].name, trans.conditions[i].expression)]
    IN  Emitted(<<Block("split", <<prev>>, trans.name, <<>>, lines)>>,
                <<>>, InvalidWarnings(trans.name, lines))

\* the main stream of a Lookup block
LookupMainStream(trans, prev) ==
    IF trans.mainInput # None THEN trans.mainInput ELSE prev

\* strip_numeric_suffix of _generate_lookup_script
strip_numeric_suffix(col_name) ==
    IF HasNumericSuffix(col_name) THEN SuffixBase(col_name) ELSE col_name

\* the operands of a condition as written, left to right
ConditionOperands_AsWritten(main_stream, lookup_stream, cond) ==
    <<Chars(main_stream) \o <<"@">> \o strip_numeric_suffix(cond.leftColumn),
      Chars(lookup_stream) \o <<"@">> \o strip_numeric_suffix(cond.rightColumn)>>

\* the two operands of an emitted condition: the main stream's column (the
\* right column of the source) and the lookup stream's (the left column)
ConditionOperands(main_stream, lookup_stream, cond) ==
    <<Chars(main_stream) \o <<"@">> \o strip_numeric_suffix(cond.rightColumn),
      Chars(lookup_stream) \o <<"@">> \o strip_numeric_suffix(cond.leftColumn)>>

\* _generate_lookup_script: one line per lookup condition
generate_lookup_script(trans, prev) ==
    LET main_stream == LookupMainStream(trans, prev)
        lines == [k \in DOMAIN trans.lookupConditions |->
                     LET ops == ConditionOperands(main_stream, trans.lookupDataset,
                                                  trans.lookupConditions[k])
                     IN  Line(<<>>, ops[1] \o <<" ", "=", "=", " ">> \o ops[2])]
    IN  Emitted(<<Block("lookup", <<main_stream, trans.lookupDataset>>,
                        trans.name, <<>>, lines)>>,
                <<>>, <<>>)

\* _generate_transformation_script
generate_transformation_script(trans, prev, processed) ==
    CASE trans.type = "DerivedColumn" -> generate_derived_column_script(trans, prev, processed)
      [] trans.type = "Filter"        -> generate_filter_script(trans, prev, processed)
      [] trans.type = "Aggregate"     -> generate_aggregate_script(trans, prev, processed)
      [] trans.type = "Join"          -> generate_join_script(trans, prev)
      [] trans.type = "Sort"          -> generate_sort_script(trans, prev)
      [] trans.type = "ConditionalSplit" -> generate_conditional_split_script(trans, prev)
      [] trans.type = "Lookup"        -> generate_lookup_script(trans, prev)
      [] trans.type = "Select" ->
             Emitted(<<Block("select", <<prev>>, trans.name, <<>>, <<>>)>>, <<>>, <<>>)
      [] OTHER -> Emitted(<<Block("passthrough", <<prev>>, trans.name, <<>>, <<>>)>>,
                          <<>>, <<>>)

(***************************************************************************)
(* translate_mapping followed by generate_dataflow                         *)
(***************************************************************************)
\* adf_structure['warnings'] and adf_structure['errors'] of every structure
\* returned are the translator's own lists (translate_mapping assigns
\* self.warnings and self.errors, not copies): what is appended to the
\* lists shows in each of them
SharingLists(structures, errs, warns) ==
    [k \in DOMAIN structures |->
        [structures[k] EXCEPT !.errors = errs, !.warnings = warns]]

\* the loop of translate_mapping over metadata.transformations, one element
TranslateStep ==
    /\ cursor <= Len(metadata.transformations)
    /\ LET trans == metadata.transformations[cursor]
           recorded(r) ==
               /\ transformations' = transformations \o r.results
               /\ errors' = errors \o r.errors
               /\ warnings' = warnings \o r.warnings
               /\ returned' = SharingLists(returned, errors \o r.errors,
                                           warnings \o r.warnings)
               /\ column_case_map' =
                      IF trans.type = "Expression"
                      THEN case_map_after(trans.expressions, column_case_map)
                      ELSE column_case_map
       IN  recorded(translate_transformation(trans, metadata, connection_map,
                                             column_case_map))
    /\ cursor' = cursor + 1
    /\ UNCHANGED <<metadata, connection_map, ordered_transformations,
                   generatorVars, adf_generator, translation, validator>>

\* translate_mapping up to its loop over the transformations
BuildConnectionMap ==
    /\ pc = "translate_mapping"
    /\ connection_map' = build_connection_map(metadata.connectors)
    /\ column_case_map' = build_column_case_map(metadata.sources)
    /\ transformations' = <<>>
    /\ cursor' = 1
    /\ pc' = "translate"
    /\ UNCHANGED <<metadata, errors, warnings, ordered_transformations,
                   generatorVars, adf_generator, translation, returned, validator>>

TranslateTransformation ==
    /\ pc = "translate"
    /\ TranslateStep
    /\ pc' = pc

\* the loop is over: the targets are translated and adf_structure returned
ReturnStructure ==
    /\ pc = "translate"
    /\ cursor > Len(metadata.transformations)
    /\ returned' = Append(returned, [transformations |-> transformations,
                                      warnings |-> warnings, errors |-> errors])
    /\ pc' = "generate_dataflow"
    /\ UNCHANGED <<translatorVars, transformations, ordered_transformations,
                   generatorVars, adf_generator, cursor, validator>>

\* _validate_source_topology
validate_source_topology(structure) ==
    IF structure.transformations = <<>> /\ structure.sinks = <<>>
    THEN {}
    ELSE Range(structure.sources)

\* translated_structure handed to generate_dataflow
TranslatedStructure ==
    [sources |-> metadata.sources, transformations |-> transformations,
     sinks |-> metadata.targets]

SourceBlock(name) == Block("source", <<>>, name, <<>>, <<>>)

\* the loop over the sources: the names declared, and whether the loop
\* raised ValueError on a duplicate
DeclaredSources(structure) ==
    LET valid == validate_source_topology(structure)
        src   == structure.sources
        F[k \in 0..Len(src)] ==
            IF k = 0 THEN [raised |-> FALSE, names |-> <<>>]
            ELSE IF F[k - 1].raised THEN F[k - 1]
            ELSE IF src[k] \in Range(F[k - 1].names)
                 THEN [raised |-> TRUE, names |-> F[k - 1].names]
            ELSE IF src[k] \notin valid THEN F[k - 1]
            ELSE [raised |-> FALSE, names |-> Append(F[k - 1].names, src[k])]
    IN  F[Len(src)]

\* the loop that adds the datasets of Flat File Lookups as sources
WithLookupSources(declared, ts) ==
    LET F[k \in 0..Len(ts)] ==
            IF k = 0 THEN declared
            ELSE IF /\ ts[k].type \in {"Lookup", "lookup"}
                    /\ ts[k].sourceType = "Flat File"
                    /\ ts[k].lookupDataset # None
                    /\ ts[k].lookupDataset \notin Range(F[k - 1])
                 THEN Append(F[k - 1], ts[k].lookupDataset)
                 ELSE F[k - 1]
    IN  F[Len(ts)]

\* generate_dataflow up to its loop over the ordered transformations
BeginDataflow ==
    /\ pc = "generate_dataflow"
    /\ LET structure == TranslatedStructure
           declared  == DeclaredSources(structure)
       IN  IF declared.raised
           THEN /\ pc' = "raised"
                /\ validation_errors' =
                       Append(validation_errors, Diagnostic("DuplicateSource", None))
                /\ UNCHANGED <<source_names, script_lines, previous_step,
                               ordered_transformations, processed_transformations,
                               validation_warnings, cursor>>
           ELSE LET sources == WithLookupSources(declared.names,
                                                 structure.transformations)
                IN  /\ source_names' = sources
                    /\ script_lines' = [i \in DOMAIN sources |-> SourceBlock(sources[i])]
                    /\ validation_warnings' =
                           validation_warnings \o
                           [i \in 1..Len(SelectSeq(structure.sources,
                                   LAMBDA n : n \notin validate_source_topology(structure)))
                               |-> Diagnostic("OrphanSource",
                                      SelectSeq(structure.sources,
                                          LAMBDA n : n \notin
                                              validate_source_topology(structure))[i])]
                    /\ previous_step' = IF sources # <<>> THEN sources[1] ELSE None
                    /\ ordered_transformations' =
                           topological_sort_transformations(structure.transformations)
                    /\ processed_transformations' = <<>>
                    /\ cursor' = 1
                    /\ pc' = "emit"
                    /\ UNCHANGED validation_errors
    /\ UNCHANGED <<translatorVars, transformations, adf_generator, returned,
                   validator>>

\* the loop's iteration with previous_step moved on by a skipped
\* transformation as well
EmitTransformation_CountSkipped ==
    /\ pc = "emit"
    /\ cursor <= Len(ordered_transformations)
    /\ LET trans == ordered_transformations[cursor]
       IN  IF \/ trans.name \in Range(source_names)
              \/ trans.type \in {"Source Qualifier", "source", "Source"}
           THEN /\ previous_step' = trans.name
                /\ UNCHANGED <<source_names, script_lines, processed_transformations,
                               validation_errors, validation_warnings>>
           ELSE LET e == generate_transformation_script(trans, previous_step,
                                                        processed_transformations)
                IN  /\ script_lines' = script_lines \o e.script
                    /\ validation_errors' = validation_errors \o e.errors
                    /\ validation_warnings' = validation_warnings \o e.warnings
                    /\ processed_transformations' =
                           Append(processed_transformations, trans)
                    /\ previous_step' = trans.name
                    /\ UNCHANGED source_names
    /\ cursor' = cursor + 1
    /\ pc' = pc
    /\ UNCHANGED <<translatorVars, transformations, ordered_transformations,
                   adf_generator, returned, validator>>

\* one iteration of the loop over ordered_transformations
EmitTransformation ==
    /\ pc = "emit"
    /\ cursor <= Len(ordered_transformations)
    /\ LET trans == ordered_transformations[cursor]
       IN  IF \/ trans.name \in Range(source_names)
              \/ trans.type \in {"Source Qualifier", "source", "Source"}
           THEN UNCHANGED generatorVars
           ELSE LET e == generate_transformation_script(trans, previous_step,
                                                        processed_transformations)
                IN  /\ script_lines' = script_lines \o e.script
                    /\ validation_errors' = validation_errors \o e.errors
                    /\ validation_warnings' = validation_warnings \o e.warnings
                    /\ processed_transformations' =
                           Append(processed_transformations, trans)
                    /\ previous_step' = trans.name
                    /\ UNCHANGED source_names
    /\ cursor' = cursor + 1
    /\ pc' = pc
    /\ UNCHANGED <<translatorVars, transformations, ordered_transformations,
                   adf_generator, returned, validator>>

\* the loop over the sinks, each fed by the last step
EmitSinks ==
    /\ pc = "emit"
    /\ cursor > Len(ordered_transformations)
    /\ LET last_step == IF previous_step # None THEN previous_step
                        ELSE IF source_names # <<>> THEN source_names[1] ELSE None
           sinks == metadata.targets
       IN  script_lines' = script_lines \o
               [i \in DOMAIN sinks |-> Block("sink", <<last_step>>, sinks[i], <<>>, <<>>)]
    /\ pc' = "done"
    /\ UNCHANGED <<translatorVars, transformations, ordered_transformations,
                   source_names, previous_step, processed_transformations,
                   validation_errors, validation_warnings, adf_generator, cursor,
                   returned, validator>>

(***************************************************************************)
(* ADFGenerator: the JSON dataflow built from the translated structure      *)
(***************************************************************************)
\* an entry of the dataflow's transformations; typeProperties is a
\* dictionary, a sequence of <<key, value>>
Activity(name, type, dependsOn, typeProperties) ==
    [name |-> name, type |-> type, dependsOn |-> dependsOn,
     typeProperties |-> typeProperties]

\* what a _build_ method returns, or raised where it raises
Built(raised, def, warns) == [raised |-> raised, def |-> def, warnings |-> warns]

\* ADFGenerator._validate_source_topology
ADF_validate_source_topology(structure) ==
    IF structure.transformations = <<>> /\ structure.sinks = <<>>
    THEN {}
    ELSE Range(structure.sources)

\* the loop of a _build_ method over columns, aggregates or conditions:
\* translate_expression again on each expression, a warning where
\* validate_adf_expression rejects the result; the loop ends where
\* translate_expression raises
BuiltExpressions(items, node) ==
    LET upTo(t, raisedAt, last) ==
            LET F[k \in 0..last] ==
                    IF k = 0 THEN <<>>
                    ELSE IF validate_adf_expression(t[k].value) THEN F[k - 1]
                         ELSE Append(F[k - 1], Diagnostic("InvalidExpression", node))
            IN  [raised |-> raisedAt # {},
                 values |-> [k \in 1..last |-> Column(items[k].name, t[k].value)],
                 warnings |-> F[last]]
        raisedIn(t, raisedAt) ==
            upTo(t, raisedAt,
                 IF raisedAt = {} THEN Len(items)
                 ELSE (CHOOSE k \in raisedAt : \A j \in raisedAt : k <= j) - 1)
        translated(t) == raisedIn(t, {k \in DOMAIN items : t[k].raised})
    IN  translated([k \in DOMAIN items |-> translate(items[k].expression)])

\* _build_derived_column
build_derived_column(trans, prev) ==
    LET built(b) ==
            Built(b.raised,
                  Activity(trans.name, "derivedColumn", <<prev>>,
                           << <<"columns", b.values>> >>),
                  b.warnings)
    IN  built(BuiltExpressions(trans.columns, trans.name))

\* _build_filter
build_filter(trans, prev) ==
    LET built(b) ==
            Built(b.raised,
                  Activity(trans.name, "filter", <<prev>>,
                           IF b.raised THEN <<>>
                           ELSE << <<"condition", b.values[1].expression>> >>),
                  b.warnings)
    IN  built(BuiltExpressions(<<Column(trans.name, trans.condition)>>, trans.name))

\* _build_aggregate
build_aggregate(trans, prev) ==
    LET built(b) ==
            Built(b.raised,
                  Activity(trans.name, "aggregate", <<prev>>,
                           << <<"groupBy", trans.groupBy>>, <<"aggregates", b.values>> >>),
                  b.warnings)
    IN  built(BuiltExpressions(trans.aggregates, trans.name))

\* _build_join with left_input and right_input the last two elements of
\* list(all_steps); raises with fewer than two steps
build_join(trans, left_input, right_input, enough) ==
    Built(~enough,
          Activity(trans.name, "join", <<left_input, right_input>>,
                   << <<"leftInput", left_input>>, <<"rightInput", right_input>> >>),
          <<>>)

\* _build_sort
build_sort(trans, prev) ==
    Built(FALSE, Activity(trans.name, "sort", <<prev>>, <<>>), <<>>)

\* _build_conditional_split
build_conditional_split(trans, prev) ==
    LET built(b) ==
            Built(b.raised,
                  Activity(trans.name, "conditionalSplit", <<prev>>,
                           << <<"conditions", b.values>> >>),
                  b.warnings)
    IN  built(BuiltExpressions(trans.conditions, trans.name))

\* _build_lookup
build_lookup(trans, prev) ==
    Built(FALSE,
          Activity(trans.name, "lookup", <<prev>>,
                   << <<"lookupDataset", trans.lookupDataset>>,
                      <<"lookupConditions", trans.lookupConditions>> >>),
          <<>>)

\* the key of the condition block _build_alter_row writes for an action
condition_key(action) ==
    CASE action = "insert" -> <<"insertCondition">>
      [] action = "update" -> <<"updateCondition">>
      [] action = "delete" -> <<"deleteCondition">>
      [] action = "upsert" -> <<"upsertCondition">>
      [] OTHER -> <<>>

\* _build_alter_row: trans.get('action', 'insert') and
\* trans.get('condition', 'true')
build_alter_row(trans, prev) ==
    LET action == IF trans.action = None THEN "insert" ELSE trans.action
        condition == IF trans.condition = <<>> THEN <<"t", "r", "u", "e">>
                     ELSE trans.condition
        keys == condition_key(action)
    IN  Built(FALSE,
              Activity(trans.name, "alterRow", <<prev>>,
                       [k \in DOMAIN keys |-> <<keys[k], condition>>]),
              <<>>)

\* _build_generic_transformation
build_generic_transformation(trans, prev) ==
    Built(FALSE, Activity(trans.name, "generic", <<prev>>, <<>>), <<>>)

\* the try block of generate_dataflow's loop
build_transformation(trans, prev, left_input, right_input, enough) ==
    CASE trans.type = "DerivedColumn" -> build_derived_column(trans, prev)
      [] trans.type = "Filter" -> build_filter(trans, prev)
      [] trans.type = "Aggregate" -> build_aggregate(trans, prev)
      [] trans.type = "Join" -> build_join(trans, left_input, right_input, enough)
      [] trans.type = "Sort" -> build_sort(trans, prev)
      [] trans.type = "ConditionalSplit" -> build_conditional_split(trans, prev)
      [] trans.type = "Lookup" -> build_lookup(trans, prev)
      [] trans.type = "AlterRow" -> build_alter_row(trans, prev)
      [] OTHER -> build_generic_transformation(trans, prev)

\* the names of all_step_names
all_step_names ==
    Range(adf_generator.sources)
    \cup {adf_generator.transformations[k].name : k \in DOMAIN adf_generator.transformations}

\* _validate_dataflow_structure: TRUE when it raises ValueError because a
\* dependsOn names a step that is not an earlier one
validate_dataflow_structure(sources, built, sinks) ==
    \/ \E k \in DOMAIN built : \E d \in Range(built[k].dependsOn) :
          d \notin Range(sources) \cup {built[j].name : j \in 1..(k - 1)}
    \/ \E k \in DOMAIN sinks : \E d \in Range(sinks[k].dependsOn) :
          d \notin Range(sources) \cup {built[j].name : j \in DOMAIN built}

\* ADFGenerator.generate_dataflow up to its loop over the transformations
BuildSources ==
    /\ pc = "generate_dataflow"
    /\ LET structure == TranslatedStructure
           valid == ADF_validate_source_topology(structure)
           src   == structure.sources
           F[k \in 0..Len(src)] ==
               IF k = 0 THEN [raised |-> FALSE, names |-> <<>>, warnings |-> <<>>]
               ELSE IF F[k - 1].raised THEN F[k - 1]
               ELSE IF src[k] \in Range(F[k - 1].names)
                    THEN [F[k - 1] EXCEPT !.raised = TRUE]
               ELSE IF src[k] \notin valid
                    THEN [F[k - 1] EXCEPT
                          !.warnings = Append(@, Diagnostic("OrphanSource", src[k]))]
               ELSE [F[k - 1] EXCEPT !.names = Append(@, src[k])]
           r == F[Len(src)]
       IN  /\ adf_generator' =
                  [adf_generator EXCEPT
                   !.sources = r.names,
                   !.transformations = <<>>,
                   !.sinks = <<>>,
                   !.validation_warnings = @ \o r.warnings,
                   !.validation_errors =
                       IF r.raised THEN Append(@, Diagnostic("DuplicateSource", None))
                       ELSE @]
           /\ pc' = IF r.raised THEN "raised" ELSE "build"
    /\ cursor' = 1
    /\ UNCHANGED <<translatorVars, transformations, ordered_transformations,
                   generatorVars, returned, validator>>

\* one iteration of the loop over translated_structure['transformations'];
\* the order of list(all_steps) is any order of the set
BuildTransformation ==
    /\ pc = "build"
    /\ cursor <= Len(transformations)
    /\ LET trans == transformations[cursor]
           sources == adf_generator.sources
       IN  IF trans.name \in Range(sources)
           THEN /\ adf_generator' =
                       [adf_generator EXCEPT
                        !.validation_errors =
                            Append(@, Diagnostic("SourceAndTransformation", trans.name))]
                /\ pc' = pc
           ELSE IF trans.type \in {"Source Qualifier", "source", "Source"}
           THEN UNCHANGED <<adf_generator, pc>>
           ELSE IF cursor = 1 /\ sources = <<>>
           THEN \* sources[0] raises IndexError outside the try block
                /\ pc' = "raised"
                /\ UNCHANGED adf_generator
           ELSE LET prev == IF cursor = 1 THEN sources[1]
                                      ELSE transformations[cursor - 1].name
                    steps == all_step_names
                    enough == Cardinality(steps) >= 2
                IN  \E left_input \in steps \cup {None} :
                    \E right_input \in steps \cup {None} :
                        /\ IF trans.type = "Join" /\ enough
                           THEN left_input \in steps /\ right_input \in steps
                                /\ left_input # right_input
                           ELSE left_input = None /\ right_input = None
                        /\ LET appended(b) ==
                                   IF b.raised
                                   THEN /\ adf_generator' =
                                               [adf_generator EXCEPT
                                                !.validation_warnings = @ \o b.warnings,
                                                !.validation_errors =
                                                    Append(@, Diagnostic("BuildError",
                                                                         trans.name))]
                                        /\ pc' = "raised"
                                   ELSE /\ adf_generator' =
                                               [adf_generator EXCEPT
                                                !.validation_warnings = @ \o b.warnings,
                                                !.transformations = Append(@, b.def)]
                                        /\ pc' = pc
                           IN  appended(build_transformation(trans, prev, left_input,
                                                             right_input, enough))
    /\ cursor' = IF pc' = "raised" THEN cursor ELSE cursor + 1
    /\ UNCHANGED <<translatorVars, transformations, ordered_transformations,
                   generatorVars, returned, validator>>

\* the loop over the sinks, then _validate_dataflow_structure
BuildSinks ==
    /\ pc = "build"
    /\ cursor > Len(transformations)
    /\ LET structure == TranslatedStructure
           built == adf_generator.transformations
           sources == adf_generator.sources
           last_step == IF built # <<>> THEN built[Len(built)].name
                        ELSE IF sources # <<>> THEN sources[1] ELSE None
           sinks == [k \in DOMAIN structure.sinks |->
                        [name |-> structure.sinks[k], dependsOn |-> <<last_step>>]]
       IN  IF \/ structure.sinks # <<>> /\ last_step = None
              \/ validate_dataflow_structure(sources, built, sinks)
           THEN /\ pc' = "raised"
                /\ UNCHANGED adf_generator
           ELSE /\ pc' = "built"
                /\ adf_generator' = [adf_generator EXCEPT !.sinks = sinks]
    /\ UNCHANGED <<translatorVars, transformations, ordered_transformations,
                   generatorVars, cursor, returned, validator>>

(***************************************************************************)
(* Mappings for the connector graph: two sources, two upstream instances   *)
(* that are Source Qualifiers or Sorters, and one Joiner or Lookup         *)
(***************************************************************************)
\* most connectors of a mapping
MaxConnectors == 4

Transformation(name, type) ==
    [name |-> name, type |-> type, fields |-> <<>>, lookup_table |-> "D",
     return_fields |-> <<>>, source_type |-> "Database",
     expressions |-> <<>>, filter_condition |-> <<>>, group_by_fields |-> <<>>,
     lookup_condition |-> <<>>,
     strategy |-> "DD_INSERT", strategy_expression |-> <<>>]

Connector(from, to) == [from_instance |-> from, to_instance |-> to]

ConnectorChoices ==
    {Connector(f, "SQ_A") : f \in {"S1", "S2", "SQ_B"}}
    \cup {Connector("S1", "SQ_B")}
    \cup {Connector(f, "Z") : f \in {"S1", "SQ_A", "SQ_B"}}

RECURSIVE SeqsUpTo(_, _)
SeqsUpTo(S, n) ==
    IF n = 0 THEN {<<>>}
    ELSE LET shorter == SeqsUpTo(S, n - 1)
         IN  shorter \cup {Append(q, x) : q \in {r \in shorter : Len(r) = n - 1}, x \in S}

GraphMappings ==
    {[sources |-> <<"S1", "S2">>,
      transformations |-> <<Transformation("SQ_A", tA),
                            Transformation("SQ_B", "Source Qualifier"),
                            Transformation("Z", tZ)>>,
      connectors |-> cs,
      targets |-> <<"T">>] :
        tA \in {"Source Qualifier", "Sorter"}, tZ \in {"Joiner", "Lookup"},
        cs \in SeqsUpTo(ConnectorChoices, MaxConnectors)}

Init ==
    /\ pc = "translate_mapping"
    /\ metadata \in GraphMappings
    /\ connection_map = <<>>
    /\ column_case_map = <<>>
    /\ errors = <<>>
    /\ warnings = <<>>
    /\ transformations = <<>>
    /\ ordered_transformations = <<>>
    /\ cursor = 1
    /\ GeneratorIdle
    /\ TranslationIdle
    /\ ValidatorIdle

Next ==
    \/ BuildConnectionMap
    \/ TranslateTransformation
    \/ ReturnStructure
    \/ BeginDataflow
    \/ EmitTransformation
    \/ EmitSinks

Spec == Init /\ [][Next]_vars

(***************************************************************************)
(* Mappings for the column disambiguation: one source, one Lookup and one  *)
(* expression-bearing transformation                                       *)
(***************************************************************************)
\* most fields of a Lookup
MaxFields == 2

DISCOUNT == <<"D", "I", "S", "C", "O", "U", "N", "T">>

PROMO_ID == <<"P", "R", "O", "M", "O", "_", "I", "D">>

\* the names the fields of a Lookup are drawn from, in port order
FieldNames == <<DISCOUNT, DISCOUNT \o <<"1">>, PROMO_ID, PROMO_ID \o <<"2">> >>

\* the elements of list at the indices I, in the order of list
SubList(list, I) ==
    [k \in 1..Cardinality(I) |->
        list[CHOOSE i \in I : Cardinality({j \in I : j < i}) = k - 1]]

\* the expressions of the downstream transformation
ExpressionTexts ==
    { PROMO_ID \o <<"2", " ", "+", " ", "1">>,
      DISCOUNT \o <<"1", " ", ">", " ", "1">>,
      DISCOUNT \o <<"1", "0", " ", "+", " ">> \o DISCOUNT \o <<"1">>,
      <<"D", "@">> \o DISCOUNT \o <<"1", " ", "+", " ">> \o DISCOUNT,
      <<" ", "I", "N", "_">> \o DISCOUNT \o <<" ", " ", "+", " ">> \o PROMO_ID \o <<"2", " ">> }

\* a Lookup with its fields, its return fields and its lookup table
LookupTransformation(name, fields, return_fields, lookup_table) ==
    [Transformation(name, "Lookup") EXCEPT
        !.fields = fields, !.return_fields = return_fields,
        !.lookup_table = lookup_table]

\* an Expression, Filter, Aggregator or Router with one expression
ExpressionTransformation(name, type, expression) ==
    IF type = "Filter"
    THEN [Transformation(name, type) EXCEPT !.filter_condition = expression]
    ELSE [Transformation(name, type) EXCEPT
             !.expressions = <<Column(<<"V">>, expression)>>]

\* the fields of a Lookup and, among them, its return fields, as indices
FieldChoices ==
    UNION {{<<I, R>> : R \in SUBSET I} :
           I \in {J \in SUBSET DOMAIN FieldNames : Cardinality(J) \in 1..MaxFields}}

\* the expressions are plain text
DisambiguationMappings ==
    {[sources |-> <<"S1">>,
      transformations |->
          <<LookupTransformation("L", SubList(FieldNames, fr[1]),
                                 SubList(FieldNames, fr[2]), d),
            ExpressionTransformation(n, t, e)>>,
      connectors |-> IF fed THEN <<Connector("S1", "L"), Connector("L", n)>> ELSE <<>>,
      targets |-> <<"T">>] :
        fr \in FieldChoices,
        d \in {"D", "lkp_DIM_PROMO", "DISCOUNT"},
        n \in {"A", "X"},
        t \in {"Expression", "Filter", "Aggregator", "Router"},
        e \in {x \in ExpressionTexts : IsPlainText(x)},
        fed \in BOOLEAN}

DisambInit ==
    /\ pc = "translate_mapping"
    /\ metadata \in DisambiguationMappings
    /\ connection_map = <<>>
    /\ column_case_map = <<>>
    /\ errors = <<>>
    /\ warnings = <<>>
    /\ transformations = <<>>
    /\ ordered_transformations = <<>>
    /\ cursor = 1
    /\ GeneratorIdle
    /\ TranslationIdle
    /\ ValidatorIdle

SpecDisamb == DisambInit /\ [][Next]_vars

(***************************************************************************)
(* Properties of the Graph Resolver, stated on the mapping's connectors    *)
(***************************************************************************)
\* the connector sources of an instance, duplicates included, in connector order
ConnectorSources(md, n) ==
    LET into == SelectSeq(md.connectors, LAMBDA c : c.to_instance = n)
    IN  [i \in DOMAIN into |-> into[i].from_instance]

\* the same without repetitions, each name at its first occurrence
UpstreamInstances(md, n) ==
    LET src   == ConnectorSources(md, n)
        first == {i \in DOMAIN src : \A j \in 1..(i - 1) : src[j] # src[i]}
    IN  [k \in 1..Cardinality(first) |->
            src[CHOOSE i \in first : Cardinality({j \in first : j < i}) = k - 1]]

IsSourceQualifier(md, n) ==
    \E i \in DOMAIN md.transformations :
        md.transformations[i].name = n /\ md.transformations[i].type = "Source Qualifier"

\* the Source Qualifier rule: the first connector source that is a Source
QualifiedSource(md, n) ==
    LET src  == ConnectorSources(md, n)
        hits == {i \in DOMAIN src : src[i] \in Range(md.sources)}
    IN  IF IsSourceQualifier(md, n) /\ hits # {}
        THEN src[CHOOSE i \in hits : \A j \in hits : i <= j]
        ELSE n

\* the translated transformations of a given name and type
Translated(name, type) ==
    {transformations[i] : i \in {j \in DOMAIN transformations :
        transformations[j].name = name /\ transformations[j].type = type}}

HasDiagnostic(list, node) == \E i \in DOMAIN list : list[i].node = node

\* C4: a Joiner whose two upstream instances are distinct and resolve to the
\* same name gets an error in the translator's errors, and its leftInput and
\* rightInput are the two unresolved names.
C4_InconsistentResolution ==
    \A j \in Translated("Z", "Join") :
        LET up == UpstreamInstances(metadata, "Z")
        IN  (Len(up) >= 2
             /\ QualifiedSource(metadata, up[1]) = QualifiedSource(metadata, up[2]))
            => /\ Diagnostic("JoinerSameStream", "Z") \in Range(errors)
               /\ j.leftInput = up[1]
               /\ j.rightInput = up[2]
               /\ j.leftInput # j.rightInput

\* a Joiner fed by a source and by the qualifier of that source
C4_Witness ==
    /\ pc = "done"
    /\ \E j \in Translated("Z", "Join") :
          /\ UpstreamInstances(metadata, "Z") = <<"S1", "SQ_B">>
          /\ QualifiedSource(metadata, "SQ_B") = "S1"
          /\ j.rightInput = "SQ_B"
          /\ Diagnostic("JoinerSameStream", "Z") \in Range(errors)

\* C5 as stated: the first unique upstream instance, resolved, is leftInput
\* and the second, resolved, is rightInput.
C5_ResolvedFirstAndSecond ==
    \A j \in Translated("Z", "Join") :
        LET up == UpstreamInstances(metadata, "Z")
        IN  Len(up) >= 2 =>
               /\ j.leftInput = QualifiedSource(metadata, up[1])
               /\ j.rightInput = QualifiedSource(metadata, up[2])

\* C5 amended: the upstream instances are the connector sources without
\* repetitions in first-occurrence order; the first and the second, resolved,
\* are leftInput and rightInput unless both resolve to one name, and then
\* the two unresolved names are leftInput and rightInput.
C5_FirstAndSecondUpstream ==
    \A j \in Translated("Z", "Join") :
        LET up == UpstreamInstances(metadata, "Z")
        IN  Len(up) >= 2 =>
               IF QualifiedSource(metadata, up[1]) = QualifiedSource(metadata, up[2])
               THEN j.leftInput = up[1] /\ j.rightInput = up[2]
               ELSE /\ j.leftInput = QualifiedSource(metadata, up[1])
                    /\ j.rightInput = QualifiedSource(metadata, up[2])

\* a Joiner with two connectors from one qualifier before one from a source,
\* the qualifier reading the other source
C5_Witness ==
    /\ pc = "done"
    /\ \E j \in Translated("Z", "Join") :
          /\ ConnectorSources(metadata, "Z") = <<"SQ_A", "SQ_A", "S1">>
          /\ j.leftInput = "S2"
          /\ j.rightInput = "S1"

\* C6: the resolution of a name is the first connector source that is a
\* Source when the name is a Source Qualifier with such a source, and the
\* name itself otherwise.
C6_ResolveSourceQualifier ==
    pc # "translate_mapping" =>
        /\ \A n \in {"S1", "S2", "SQ_A", "SQ_B", "Z", "X"} :
              resolve_source_qualifier_to_source(n, metadata, connection_map)
                  = QualifiedSource(metadata, n)
        /\ \A l \in Translated("Z", "Lookup") :
              LET up == UpstreamInstances(metadata, "Z")
              IN  up # <<>> => l.mainInput = QualifiedSource(metadata, up[1])

\* a Lookup fed by a qualifier whose first connector comes from another
\* qualifier and whose later connectors come from S2 and then S1
C6_Witness ==
    /\ pc = "done"
    /\ ConnectorSources(metadata, "SQ_A") = <<"SQ_B", "S2", "S1">>
    /\ IsSourceQualifier(metadata, "SQ_A")
    /\ \E l \in Translated("Z", "Lookup") : l.mainInput = "S2"

\* the names of the streams of the data flow
StreamNames ==
    Range(metadata.sources) \cup Range(metadata.targets)
    \cup {metadata.transformations[i].name : i \in DOMAIN metadata.transformations}

BlocksNamed(n) == {script_lines[i] : i \in {k \in DOMAIN script_lines :
                                                script_lines[k].name = n}}

\* C7: when a Join has fewer than two unique upstream instances, or a Lookup
\* has none, an error is recorded and the block names a placeholder for the
\* missing input, never the name of a stream of the data flow.
C7_MissingInputIsPlaceholder ==
    pc = "done" =>
        LET up == UpstreamInstances(metadata, "Z")
        IN  /\ \A b \in BlocksNamed("Z") :
                  (b.kind = "join" /\ Len(up) < 2) =>
                      /\ HasDiagnostic(errors, "Z") \/ HasDiagnostic(validation_errors, "Z")
                      /\ b.inputs[2] \notin StreamNames \cup {None}
                      /\ Len(up) = 0 => b.inputs[1] \notin StreamNames \cup {None}
            /\ \A b \in BlocksNamed("Z") :
                  (b.kind = "lookup" /\ Len(up) = 0) =>
                      /\ HasDiagnostic(errors, "Z") \/ HasDiagnostic(validation_errors, "Z")
                      /\ b.inputs[1] \notin StreamNames \cup {None}

\* the part of C7 that is about Joins
C7_JoinPart ==
    pc = "done" =>
        LET up == UpstreamInstances(metadata, "Z")
        IN  \A b \in BlocksNamed("Z") :
                (b.kind = "join" /\ Len(up) < 2) =>
                    /\ HasDiagnostic(errors, "Z") /\ HasDiagnostic(validation_errors, "Z")
                    /\ b.inputs[2] = "MISSING_RIGHT_INPUT"
                    /\ Len(up) = 0 => b.inputs[1] = "MISSING_LEFT_INPUT"

(***************************************************************************)
(* Properties of the column disambiguation, stated on the mapping and the  *)
(* emitted script                                                          *)
(***************************************************************************)
\* the Lookup of the mapping and the transformation that carries expressions
LookupOf(md) == md.transformations[1]

ConsumerOf(md) == md.transformations[2]

\* a name without its trailing digits
WithoutTrailingDigits(name) ==
    LET keep == {n \in 1..Len(name) : \A k \in (n + 1)..Len(name) : IsDigit(name[k])}
    IN  SubSeq(name, 1, CHOOSE n \in keep : \A m \in keep : n <= m)

IsSuffixedName(name) ==
    IsDigit(name[Len(name)]) /\ ~IsDigit(name[1])

\* position of a transformation in the emission order, 0 when absent
EmissionIndex(n) ==
    IF \E i \in DOMAIN ordered_transformations : ordered_transformations[i].name = n
    THEN CHOOSE i \in DOMAIN ordered_transformations : ordered_transformations[i].name = n
    ELSE 0

ConsumerAfterLookup ==
    /\ pc = "done"
    /\ EmissionIndex(LookupOf(metadata).name) > 0
    /\ EmissionIndex(LookupOf(metadata).name) < EmissionIndex(ConsumerOf(metadata).name)

\* the expressions of the consumer as the translator hands them over
TranslatedExpressions(n) ==
    UNION {{t.columns[k].expression : k \in DOMAIN t.columns}
           \cup {t.aggregates[k].expression : k \in DOMAIN t.aggregates}
           \cup {t.conditions[k].expression : k \in DOMAIN t.conditions}
           \cup (IF t.type = "Filter" THEN {t.condition} ELSE {}) :
           t \in {transformations[i] : i \in {j \in DOMAIN transformations :
                                                  transformations[j].name = n}}}

\* the expressions in the blocks emitted for a transformation
EmittedExpressions(n, kinds) ==
    UNION {{b.exprs[k].expression : k \in DOMAIN b.exprs} :
           b \in {c \in BlocksNamed(n) : c.kind \in kinds}}

\* the last position of the identifier that begins at position i
RECURSIVE IdentifierLast(_, _)
IdentifierLast(text, i) ==
    IF i < Len(text) /\ text[i + 1] \in WordChars THEN IdentifierLast(text, i + 1) ELSE i

\* the identifiers of a text that no `@` precedes: first and last position
UnqualifiedIdentifiers(text) ==
    {<<i, IdentifierLast(text, i)>> : i \in {k \in DOMAIN text :
        /\ text[k] \in WordChars
        /\ (k = 1 \/ text[k - 1] \notin WordChars \cup {"@"})}}

\* every unqualified identifier that has an entry replaced by its entry, once
RECURSIVE QualifiedOnceFrom(_, _, _)
QualifiedOnceFrom(text, map, i) ==
    IF i > Len(text) THEN <<>>
    ELSE IF text[i] \in WordChars
         THEN LET w == SubSeq(text, i, IdentifierLast(text, i))
              IN  (IF <<i, IdentifierLast(text, i)>> \in UnqualifiedIdentifiers(text)
                      /\ w \in DictKeys(map)
                   THEN DictGet(map, w) ELSE w)
                  \o QualifiedOnceFrom(text, map, IdentifierLast(text, i) + 1)
         ELSE <<text[i]>> \o QualifiedOnceFrom(text, map, i + 1)

\* C8: every return field of a Lookup whose name is a base name followed by
\* digits has the entry name -> dataset@base in the Lookup's map, and with
\* return field PROMO_ID2 and dataset lkp_DIM_PROMO a later `PROMO_ID2 + 1` is
\* emitted as `lkp_DIM_PROMO@PROMO_ID + 1`.
C8_SuffixedReturnFieldsMapped ==
    LET lkp == LookupOf(metadata)
    IN  /\ \A l \in Translated(lkp.name, "Lookup") :
              \A k \in DOMAIN lkp.return_fields :
                  IsSuffixedName(lkp.return_fields[k]) =>
                      <<lkp.return_fields[k],
                        Chars(lkp.lookup_table) \o <<"@">>
                            \o WithoutTrailingDigits(lkp.return_fields[k])>>
                          \in Range(l.columnDisambiguation)
        /\ (/\ ConsumerAfterLookup
            /\ lkp.lookup_table = "lkp_DIM_PROMO"
            /\ PROMO_ID \o <<"2">> \in Range(lkp.return_fields)
            /\ ConsumerOf(metadata).type = "Expression"
            /\ ConsumerOf(metadata).expressions[1].expression
                   = PROMO_ID \o <<"2", " ", "+", " ", "1">>)
           => EmittedExpressions(ConsumerOf(metadata).name, {"derive"})
                  = {Chars("lkp_DIM_PROMO") \o <<"@">> \o PROMO_ID
                         \o <<" ", "+", " ", "1">>}

\* C9: a derived column or filter expression emitted after the Lookup is the
\* translated expression with each unqualified whole identifier that has an
\* entry replaced by that entry, and nothing a rule wrote is rewritten.
C9_RulesRewriteOnce ==
    ConsumerAfterLookup =>
        \A l \in Translated(LookupOf(metadata).name, "Lookup") :
            EmittedExpressions(ConsumerOf(metadata).name, {"derive", "filter"})
                \subseteq {QualifiedOnceFrom(e, l.columnDisambiguation, 1) :
                              e \in TranslatedExpressions(ConsumerOf(metadata).name)}

\* the part of C9 about whole identifiers and `@`: C9 for the maps in which
\* no entry's name is the stream that qualifies another entry's column
C9_WholeIdentifierPart ==
    ConsumerAfterLookup =>
        \A l \in Translated(LookupOf(metadata).name, "Lookup") :
            (\A a, b \in DOMAIN l.columnDisambiguation :
                 Words(l.columnDisambiguation[a][2])[1] # l.columnDisambiguation[b][1])
            => EmittedExpressions(ConsumerOf(metadata).name, {"derive", "filter"})
                   \subseteq {QualifiedOnceFrom(e, l.columnDisambiguation, 1) :
                                 e \in TranslatedExpressions(ConsumerOf(metadata).name)}

\* C10: no expression emitted for a node after the Lookup holds an
\* unqualified identifier that has an entry in the Lookup's map.
C10_DownstreamExpressionsDisambiguated ==
    ConsumerAfterLookup =>
        \A l \in Translated(LookupOf(metadata).name, "Lookup") :
            \A e \in EmittedExpressions(ConsumerOf(metadata).name,
                                        {"derive", "filter", "aggregate", "split"}) :
                \A ij \in UnqualifiedIdentifiers(e) :
                    SubSeq(e, ij[1], ij[2]) \notin DictKeys(l.columnDisambiguation)

\* C10 without the ConditionalSplit
C10_ExceptConditionalSplit ==
    ConsumerAfterLookup =>
        \A l \in Translated(LookupOf(metadata).name, "Lookup") :
            \A e \in EmittedExpressions(ConsumerOf(metadata).name,
                                        {"derive", "filter", "aggregate"}) :
                \A ij \in UnqualifiedIdentifiers(e) :
                    SubSeq(e, ij[1], ij[2]) \notin DictKeys(l.columnDisambiguation)

(***************************************************************************)
(* Mappings for the assignment lines: one source, one Lookup and one       *)
(* Expression or Aggregator with up to MaxColumns output ports             *)
(***************************************************************************)
\* most output ports of the Expression or Aggregator
MaxColumns == 2

MAX == <<"M", "A", "X">>

\* the names of the output ports
PortNames == {DISCOUNT, MAX}

\* the expressions of the output ports
PortExpressions ==
    { DISCOUNT,
      <<"I", "N", "_", " ">> \o DISCOUNT,
      <<"d", "i", "s", "c", "o", "u", "n", "t">>,
      DISCOUNT \o <<"1">>,
      MAX }

\* an Expression or Aggregator with its output ports
ColumnsTransformation(name, type, columns) ==
    [Transformation(name, type) EXCEPT !.expressions = columns]

ColumnMappings ==
    {[sources |-> <<"S1">>,
      transformations |->
          <<LookupTransformation("L", <<DISCOUNT, DISCOUNT \o <<"1">> >>, <<DISCOUNT>>, "D"),
            ColumnsTransformation("X", t, cols)>>,
      connectors |-> IF fed THEN <<Connector("S1", "L"), Connector("L", "X")>> ELSE <<>>,
      targets |-> <<"T">>] :
        t \in {"Expression", "Aggregator"},
        cols \in SeqsUpTo({Column(n, e) : n \in PortNames, e \in PortExpressions},
                          MaxColumns) \ {<<>>},
        fed \in BOOLEAN}

ColumnsInit ==
    /\ pc = "translate_mapping"
    /\ metadata \in ColumnMappings
    /\ connection_map = <<>>
    /\ column_case_map = <<>>
    /\ errors = <<>>
    /\ warnings = <<>>
    /\ transformations = <<>>
    /\ ordered_transformations = <<>>
    /\ cursor = 1
    /\ GeneratorIdle
    /\ TranslationIdle
    /\ ValidatorIdle

SpecColumns == ColumnsInit /\ [][Next]_vars

(***************************************************************************)
(* Properties of the assignment lines of DerivedColumn and Aggregate       *)
(***************************************************************************)
\* a text without its leading and trailing white space
Trimmed(text) ==
    LET solid == {i \in DOMAIN text : text[i] \notin {" ", "\t", "\n"}}
    IN  IF solid = {} THEN <<>>
        ELSE SubSeq(text, CHOOSE i \in solid : \A j \in solid : i <= j,
                          CHOOSE i \in solid : \A j \in solid : j <= i)

\* the names on the left of the assignment lines of a block, in line order
AssignedNames(b) == [k \in DOMAIN b.exprs |-> b.exprs[k].name]

\* the names of the columns whose flag is set, in declared order
NamesKept(columns, keep) ==
    LET F[k \in 0..Len(columns)] ==
            IF k = 0 THEN <<>>
            ELSE IF keep[k] THEN Append(F[k - 1], columns[k].name) ELSE F[k - 1]
    IN  F[Len(columns)]

\* C11 as stated: the assignment lines of a DerivedColumn block are, in
\* declared order, the columns whose translated expression is not identical
\* to the column's name.
C11_LineIffNotIdentical ==
    pc = "done" =>
        \A t \in Translated("X", "DerivedColumn") :
            \A b \in {c \in BlocksNamed("X") : c.kind = "derive"} :
                AssignedNames(b)
                    = NamesKept(t.columns, [k \in DOMAIN t.columns |->
                                   t.columns[k].expression # t.columns[k].name])

\* C11 amended: the assignment lines of a DerivedColumn block are, in
\* declared order, the columns whose translated expression without its
\* surrounding white space is not identical to the column's name.
C11_LineIffNotIdenticalTrimmed ==
    pc = "done" =>
        \A t \in Translated("X", "DerivedColumn") :
            \A b \in {c \in BlocksNamed("X") : c.kind = "derive"} :
                AssignedNames(b)
                    = NamesKept(t.columns, [k \in DOMAIN t.columns |->
                                   Trimmed(t.columns[k].expression) # t.columns[k].name])

\* a DerivedColumn with the column DISCOUNT = DISCOUNT before another column:
\* the block holds the other column's line alone
C11_Witness ==
    /\ pc = "done"
    /\ \E t \in Translated("X", "DerivedColumn") :
          /\ Len(t.columns) = 2
          /\ t.columns[1] = Column(DISCOUNT, DISCOUNT)
          /\ t.columns[2].name = MAX
          /\ \E b \in BlocksNamed("X") :
                b.kind = "derive" /\ AssignedNames(b) = <<MAX>>

\* a text that is nothing but a reference to the column, alone or qualified
\* by a stream
IsBareReference(e, name) ==
    LET t == Trimmed(e)
    IN  /\ Len(t) >= Len(name)
        /\ SubSeq(t, Len(t) - Len(name) + 1, Len(t)) = name
        /\ \/ Len(t) = Len(name)
           \/ /\ t[Len(t) - Len(name)] = "@"
              /\ \A i \in 1..(Len(t) - Len(name) - 1) : t[i] \in WordChars

\* the text `first(column)`, the column alone or qualified by a stream
IsFirstOf(e, name) ==
    /\ Len(e) >= 7
    /\ SubSeq(e, 1, 6) = <<"f", "i", "r", "s", "t", "(">>
    /\ e[Len(e)] = ")"
    /\ IsBareReference(SubSeq(e, 7, Len(e) - 1), name)

\* C12: every aggregate whose translated expression is its own column name
\* is emitted as name = first(column), and no emitted aggregate assignment
\* has a bare reference to its own column as right-hand side.
C12_PassthroughIsFirst ==
    pc = "done" =>
        \A t \in Translated("X", "Aggregate") :
            \A b \in {c \in BlocksNamed("X") : c.kind = "aggregate"} :
                /\ AssignedNames(b) = [k \in DOMAIN t.aggregates |-> t.aggregates[k].name]
                /\ \A k \in DOMAIN t.aggregates :
                      Trimmed(t.aggregates[k].expression) = t.aggregates[k].name
                          => IsFirstOf(b.exprs[k].expression, t.aggregates[k].name)
                /\ \A k \in DOMAIN b.exprs :
                      ~IsBareReference(b.exprs[k].expression, b.exprs[k].name)

\* the part of C12 that the code keeps: the same for the aggregates whose
\* translated expression holds no identifier with an entry in a
\* disambiguation map and whose name is not the name of an aggregate function
C12_UnmappedPart ==
    pc = "done" =>
        \A t \in Translated("X", "Aggregate") :
            \A b \in {c \in BlocksNamed("X") : c.kind = "aggregate"} :
                \A k \in DOMAIN t.aggregates :
                    (/\ Range(Words(t.aggregates[k].expression))
                            \cap DictKeys(disambiguation_map(processed_transformations)) = {}
                     /\ t.aggregates[k].name \notin Range(agg_functions))
                    => /\ Trimmed(t.aggregates[k].expression) = t.aggregates[k].name
                             => IsFirstOf(b.exprs[k].expression, t.aggregates[k].name)
                       /\ ~IsBareReference(b.exprs[k].expression, b.exprs[k].name)

(***************************************************************************)
(* Mappings for the Lookup conditions: one source and one Lookup with up   *)
(* to MaxConditions conditions `lookupColumn = mainColumn` joined by AND   *)
(***************************************************************************)
\* most conditions of a Lookup
MaxConditions == 2

\* the columns of the lookup table and of the main stream that conditions name
LookupColumns == {DISCOUNT, PROMO_ID \o <<"2">>}

MainColumns == {DISCOUNT \o <<"1">>, PROMO_ID, <<"I", "D", "1", "2">>}

\* the declared conditions: pairs <<lookupColumn, mainColumn>>
ConditionLists == SeqsUpTo(LookupColumns \X MainColumns, MaxConditions)

\* the Lookup condition property: the conditions joined by ` AND `, each
\* written with or without blanks around `=`
RECURSIVE ConditionText(_, _)
ConditionText(pairs, eq) ==
    IF pairs = <<>> THEN <<>>
    ELSE Head(pairs)[1] \o eq \o Head(pairs)[2]
         \o (IF Tail(pairs) = <<>> THEN <<>> ELSE <<" ", "A", "N", "D", " ">>)
         \o ConditionText(Tail(pairs), eq)

EqualSigns == {<<"=">>, <<" ", "=", " ">>}

LookupMappings ==
    {[sources |-> <<"S1", "S2">>,
      transformations |->
          <<[LookupTransformation("L", <<>>, <<>>, d) EXCEPT
                !.lookup_condition = ConditionText(ps, eq)]>>,
      connectors |-> IF fed THEN <<Connector("S2", "L")>> ELSE <<>>,
      targets |-> <<"T">>] :
        d \in {"D", "lkp_DIM_PROMO"},
        ps \in ConditionLists,
        eq \in EqualSigns,
        fed \in BOOLEAN}

LookupInit ==
    /\ pc = "translate_mapping"
    /\ metadata \in LookupMappings
    /\ connection_map = <<>>
    /\ column_case_map = <<>>
    /\ errors = <<>>
    /\ warnings = <<>>
    /\ transformations = <<>>
    /\ ordered_transformations = <<>>
    /\ cursor = 1
    /\ GeneratorIdle
    /\ TranslationIdle
    /\ ValidatorIdle

SpecLookup == LookupInit /\ [][Next]_vars

(***************************************************************************)
(* Properties of the Lookup block                                          *)
(***************************************************************************)
\* the condition main@mainColumn == lookupDataset@lookupColumn of a declared
\* pair, the columns without their trailing digits
ExpectedCondition(main, dataset, pair) ==
    Chars(main) \o <<"@">> \o WithoutTrailingDigits(pair[2])
        \o <<" ", "=", "=", " ">>
        \o Chars(dataset) \o <<"@">> \o WithoutTrailingDigits(pair[1])

\* C13: the conditions of a Lookup block are, in declared order, the
\* declared conditions `lookupColumn = mainColumn` written
\* main@mainColumn == lookupDataset@lookupColumn, the block's main stream
\* and lookup dataset as qualifiers and the columns without numeric suffix.
C13_LookupConditionsInverted ==
    pc = "done" =>
        \A b \in {c \in BlocksNamed("L") : c.kind = "lookup"} :
            \A ps \in ConditionLists, eq \in EqualSigns :
                ConditionText(ps, eq) = LookupOf(metadata).lookup_condition
                => /\ b.inputs[2] = LookupOf(metadata).lookup_table
                   /\ [k \in DOMAIN b.exprs |-> b.exprs[k].expression]
                          = [k \in DOMAIN ps |->
                                ExpectedCondition(b.inputs[1], b.inputs[2], ps[k])]

\* a Lookup on lkp_DIM_PROMO fed by S2 with the conditions
\* PROMO_ID2 = ID12 AND DISCOUNT = DISCOUNT1
C13_Witness ==
    /\ pc = "done"
    /\ LookupOf(metadata).lookup_condition
           = ConditionText(<< <<PROMO_ID \o <<"2">>, <<"I", "D", "1", "2">> >>,
                              <<DISCOUNT, DISCOUNT \o <<"1">> >> >>, <<" ", "=", " ">>)
    /\ \E b \in BlocksNamed("L") :
          /\ b.kind = "lookup"
          /\ b.inputs = <<"S2", "lkp_DIM_PROMO">>
          /\ Len(b.exprs) = 2
          /\ b.exprs[1].expression
                 = <<"S", "2", "@", "I", "D", " ", "=", "=", " ">>
                   \o Chars("lkp_DIM_PROMO") \o <<"@">> \o PROMO_ID


(***************************************************************************)
(* Mappings for the flow of single-input nodes: Filters, Update Strategies *)
(* and Source Qualifiers, one of which may carry the name of a source; the *)
(* translated structure goes to ADFScriptGenerator or to ADFGenerator      *)
(***************************************************************************)
\* most transformations of a mapping
MaxNodes == 3

FlowNames == {"A", "S1", "X"}

\* strategy and strategy_expression as _parse_update_strategy_properties
\* leaves them
StrategyChoices ==
    {<<"DD_INSERT", <<>> >>,
     <<"DD_UPDATE", <<"A">> >>,
     <<"DD_DELETE", Chars("DD_DELETE")>>,
     <<"DD_REJECT", Chars("DD_REJECT")>>,
     <<"DD_REJECT", <<"A">> >>}

FilterConditions == {<<"A">>, <<"A", " ", "o", "r", " ", "X">>}

\* A is an Update Strategy; S1, named like a source, is a Source Qualifier
\* or a Filter; X is any of the three kinds
FlowNodes(name) ==
    (IF name = "A" THEN {}
     ELSE {Transformation(name, "Source Qualifier")}
          \cup (IF name = "X" THEN {Transformation(name, "Sorter")} ELSE {})
          \cup {[Transformation(name, "Filter") EXCEPT !.filter_condition = c] :
                   c \in FilterConditions})
    \cup {[Transformation(name, "Update Strategy") EXCEPT
           !.strategy = st[1], !.strategy_expression = st[2]] :
             st \in IF name = "A" THEN StrategyChoices
                    ELSE IF name = "X" THEN {<<"DD_REJECT", <<"A">> >>}
                    ELSE {}}

\* the sequences of at most n nodes with distinct names
RECURSIVE FlowSeqs(_)
FlowSeqs(n) ==
    IF n = 0 THEN {<<>>}
    ELSE LET shorter == FlowSeqs(n - 1)
         IN  shorter \cup
             UNION {{Append(q, node) : node \in FlowNodes(name)} :
                       q \in {r \in shorter : Len(r) = n - 1},
                       name \in FlowNames}

DistinctNames(nodes) ==
    \A i, j \in DOMAIN nodes : nodes[i].name = nodes[j].name => i = j

FlowMappings ==
    {[sources |-> src, transformations |-> nodes, connectors |-> <<>>,
      targets |-> <<"T">>] :
        src \in {<<>>, <<"S1", "S2">>},
        nodes \in {q \in FlowSeqs(MaxNodes) : DistinctNames(q)}}

FlowInit ==
    /\ pc = "translate_mapping"
    /\ metadata \in FlowMappings
    /\ connection_map = <<>>
    /\ column_case_map = <<>>
    /\ errors = <<>>
    /\ warnings = <<>>
    /\ transformations = <<>>
    /\ ordered_transformations = <<>>
    /\ cursor = 1
    /\ GeneratorIdle
    /\ TranslationIdle
    /\ ValidatorIdle

\* translate_mapping followed by generate_dataflow of either generator
FlowNext ==
    \/ BuildConnectionMap
    \/ TranslateTransformation
    \/ ReturnStructure
    \/ BeginDataflow
    \/ EmitTransformation
    \/ EmitSinks
    \/ BuildSources
    \/ BuildTransformation
    \/ BuildSinks

SpecFlow == FlowInit /\ [][FlowNext]_vars


(***************************************************************************)
(* Properties of the flow: AlterRow, the chain of inputs, name collisions  *)
(***************************************************************************)
\* the translated transformation of a name
TranslatedNode(name) ==
    transformations[CHOOSE k \in DOMAIN transformations : transformations[k].name = name]

ConditionKeys == {"insertCondition", "updateCondition", "deleteCondition", "upsertCondition"}

\* the condition block an action selects, where it selects one
SelectedKey(action) ==
    CASE action = "insert" -> {"insertCondition"}
      [] action = "update" -> {"updateCondition"}
      [] action = "delete" -> {"deleteCondition"}
      [] action = "upsert" -> {"upsertCondition"}
      [] OTHER -> ConditionKeys

\* the AlterRow entries of the JSON dataflow and the AlterRow blocks of the
\* script
AlterRowEntries ==
    {k \in DOMAIN adf_generator.transformations :
        adf_generator.transformations[k].type = "alterRow"}

AlterRowBlocks ==
    {i \in DOMAIN script_lines :
        /\ script_lines[i].kind \notin {"source", "sink"}
        /\ \E k \in DOMAIN transformations :
              /\ transformations[k].name = script_lines[i].name
              /\ transformations[k].type = "AlterRow"}

\* C14: every AlterRow node is emitted with exactly one condition block
\* among insert, update, delete and upsert, the one its action selects,
\* whatever the action, in the JSON dataflow and in the script
C14_OneConditionBlock ==
    /\ \A k \in AlterRowEntries :
          LET entry == adf_generator.transformations[k]
          IN  /\ Len(entry.typeProperties) = 1
              /\ entry.typeProperties[1][1] \in SelectedKey(TranslatedNode(entry.name).action)
    /\ \A i \in AlterRowBlocks : Len(script_lines[i].exprs) = 1


\* the blocks of the script that are transformations, and those among them
\* of a single-input kind
TransformationBlocks ==
    {i \in DOMAIN script_lines : script_lines[i].kind \notin {"source", "sink"}}

SingleInputBlocks ==
    {i \in TransformationBlocks : script_lines[i].kind \notin {"join", "lookup"}}

\* the transformation block emitted last before position i, 0 if none
EmittedBefore(i) ==
    LET before == {j \in TransformationBlocks : j < i}
    IN  IF before = {} THEN 0 ELSE CHOOSE j \in before : \A k \in before : k <= j

\* C15: in the script every single-input block takes as input the name
\* of the transformation block emitted immediately before it, the first source
\* where none was emitted, and every sink takes the last block emitted
C15_InputIsPrecedingBlock ==
    /\ \A i \in SingleInputBlocks :
          LET j == EmittedBefore(i)
          IN  IF j # 0 THEN script_lines[i].inputs = <<script_lines[j].name>>
              ELSE script_lines[1].kind = "source"
                      => script_lines[i].inputs = <<script_lines[1].name>>
    /\ \A i \in DOMAIN script_lines :
          script_lines[i].kind = "sink" /\ EmittedBefore(i) # 0
              => script_lines[i].inputs = <<script_lines[EmittedBefore(i)].name>>

\* the script is complete, a transformation skipped for its name stands
\* between two emitted ones in the final order, and another flow starts
\* with a skipped one
C15_Witness ==
    /\ pc = "done"
    /\ Len(ordered_transformations) = 3
    /\ ordered_transformations[2].name \in Range(source_names)
    /\ \E i \in SingleInputBlocks :
          /\ script_lines[i].name = ordered_transformations[3].name
          /\ script_lines[i].inputs = <<ordered_transformations[1].name>>
    /\ \E i \in DOMAIN script_lines :
          /\ script_lines[i].kind = "sink"
          /\ script_lines[i].inputs = <<ordered_transformations[3].name>>


\* the translated transformations that carry the name of a declared source
CollidingNames ==
    {transformations[k].name : k \in DOMAIN transformations}
    \cap Range(metadata.sources)

\* C16: a transformation named like a declared source gets no script
\* block and no entry of the JSON dataflow, and the generator that skipped
\* it has recorded an error for the collision
C16_CollisionDroppedWithError ==
    \A name \in CollidingNames :
        /\ pc = "done" =>
              /\ \A i \in TransformationBlocks : script_lines[i].name # name
              /\ HasDiagnostic(validation_errors, name)
        /\ pc = "built" =>
              /\ \A k \in DOMAIN adf_generator.transformations :
                    adf_generator.transformations[k].name # name
              /\ HasDiagnostic(adf_generator.validation_errors, name)


(***************************************************************************)
(* ExpressionTranslator called on one expression                           *)
(***************************************************************************)
MaxTokens == 3
MaxArgs == 3

\* pieces of PowerCenter expression text
ExpressionTokens ==
    {<<"A">>, <<"X">>, <<" ", "O", "R", " ">>, <<" ", "o", "r", " ">>,
     <<"I", "N", "S", "T", "R", "(">>, <<")">>}

\* the texts made of n pieces at most
RECURSIVE TokenTexts(_)
TokenTexts(n) ==
    IF n = 0 THEN {<<>>}
    ELSE LET shorter == TokenTexts(n - 1)
         IN  shorter \cup {t \o k : t \in shorter, k \in ExpressionTokens}

\* arguments of a call: a column, quoted literals holding a parenthesis or
\* a comma, a nested call
ArgumentTexts ==
    {<<"A">>, <<"'", "D", "D", "'">>, <<"'", ")", "'">>, <<"'", ",", "'">>,
     <<"F", "(", "1", ",", " ", "2", ")">>}

\* the argument texts of calls with n arguments at most
RECURSIVE JoinedArguments(_)
JoinedArguments(n) ==
    IF n = 1 THEN ArgumentTexts
    ELSE LET shorter == JoinedArguments(n - 1)
         IN  shorter \cup {a \o <<",", " ">> \o b : a \in shorter, b \in ArgumentTexts}

\* calls of the constructs _translate_decode and _translate_add_to_date rewrite
CallTexts ==
    {name \o arguments \o <<")">> :
        name \in {<<"D", "E", "C", "O", "D", "E", "(">>,
                  <<"A", "D", "D", "_", "T", "O", "_", "D", "A", "T", "E", "(">>},
        arguments \in JoinedArguments(MaxArgs)}

\* the call the docstring of _translate_decode gives as its example:
\* DECODE(status, 'A', 'Active', 'I', 'Inactive', 'Unknown')
DecodeExample ==
    <<"D", "E", "C", "O", "D", "E", "(", "s", "t", "a", "t", "u", "s", ",",
      " ", "'", "A", "'", ",", " ", "'", "A", "c", "t", "i", "v", "e", "'",
      ",", " ", "'", "I", "'", ",", " ", "'", "I", "n", "a", "c", "t", "i",
      "v", "e", "'", ",", " ", "'", "U", "n", "k", "n", "o", "w", "n", "'",
      ")">>

TranslateExpressions == TokenTexts(MaxTokens) \cup CallTexts \cup {DecodeExample}

TranslateInit ==
    /\ pc = "translate"
    /\ translation \in {[expression |-> e, translated |-> <<>>, second |-> <<>>,
                         paren_end |-> 0, args |-> <<>>] : e \in TranslateExpressions}
    /\ TranslatorIdle
    /\ returned = <<>>
    /\ ValidatorIdle
    /\ transformations = <<>>
    /\ ordered_transformations = <<>>
    /\ cursor = 1
    /\ GeneratorIdle

\* translate(expression): the text it returns, or the rewritten text its
\* ValueError reports
Translate ==
    /\ pc = "translate"
    /\ LET answered(r) ==
               /\ translation' = [translation EXCEPT !.translated = r.value]
               /\ pc' = IF r.raised THEN "raised" ELSE "returned"
       IN  answered(translate(translation.expression))
    /\ UNCHANGED <<metadata, connection_map, column_case_map, errors, warnings,
                   transformations, ordered_transformations, generatorVars,
                   adf_generator, cursor, returned, validator>>

\* translate called on the text a first call returned, as the _build_ methods
\* of ADFGenerator call it on the translated structure
TranslateAgain ==
    /\ pc = "returned"
    /\ LET answered(r) ==
               /\ translation' = [translation EXCEPT !.second = r.value]
               /\ pc' = IF r.raised THEN "raised_again" ELSE "returned_again"
       IN  answered(translate(translation.translated))
    /\ UNCHANGED <<metadata, connection_map, column_case_map, errors, warnings,
                   transformations, ordered_transformations, generatorVars,
                   adf_generator, cursor, returned, validator>>

\* the first round of the loop of _translate_decode or _translate_add_to_date
\* up to the split of the arguments: the closing parenthesis it finds and
\* the arguments it separates
SplitArguments ==
    /\ pc = "translate"
    /\ \E pattern \in {DecodePattern, AddToDatePattern} :
           LET closed(match, paren_end) ==
                   /\ translation' =
                          [translation EXCEPT
                           !.paren_end = paren_end,
                           !.args = IF paren_end = 0 THEN <<>>
                                    ELSE split_function_args(
                                             SubSeq(translation.expression, match.end,
                                                    paren_end - 1))]
                   /\ pc' = IF paren_end = 0 THEN "unbalanced" ELSE "split"
               found(match) ==
                   /\ match.ok
                   /\ closed(match, closing_paren(translation.expression, match.end, 1))
           IN  found(Search(pattern, translation.expression, 1, TRUE))
    /\ UNCHANGED <<metadata, connection_map, column_case_map, errors, warnings,
                   transformations, ordered_transformations, generatorVars,
                   adf_generator, cursor, returned, validator>>

TranslateNext ==
    \/ Translate
    \/ TranslateAgain
    \/ SplitArguments

SpecTranslate == TranslateInit /\ [][TranslateNext]_vars

\* two characters that are the same letter in either case, or the same character
SameLetter(c, d) ==
    \/ c = d
    \/ \E k \in DOMAIN UpperLetters : {c, d} = {UpperLetters[k], LowerLetters[k]}

\* the text holds a token of the denylist, letters compared in either case
DenylistedIn(text) ==
    \E k \in DOMAIN forbidden_functions : \E i \in 1..Len(text) :
        /\ i + Len(forbidden_functions[k]) - 1 <= Len(text)
        /\ \A j \in DOMAIN forbidden_functions[k] :
               SameLetter(text[i + j - 1], forbidden_functions[k][j])

\* C17: translate raises ValueError exactly when the rewritten text holds a
\* token of the denylist in either case, and a text it returns for an
\* expression that is not empty holds none
C17_RaisesExactlyOnDenylisted ==
    /\ pc \in {"returned", "raised"} =>
           ((pc = "raised") <=> DenylistedIn(translation.translated))
    /\ (pc = "returned" /\ translation.expression # <<>>) =>
           ~DenylistedIn(translation.translated)

\* translate has raised on a text that holds the denylisted operator in
\* lower case
C17_Witness ==
    /\ pc = "raised"
    /\ Contains(translation.translated, <<" ", "o", "r", " ">>)
    /\ ~Contains(translation.translated, <<" ", "O", "R", " ">>)


\* C19: translate called on a text it has returned raises ValueError or
\* returns that text unchanged
C19_SecondPassIsNoOp ==
    pc = "returned_again" => translation.second = translation.translated


\* the index of the first opening parenthesis of a text that has one
FirstParen(text) ==
    CHOOSE i \in 1..Len(text) : text[i] = "(" /\ \A j \in 1..(i - 1) : text[j] # "("

\* after each character of the text: the quote it stands in ("" for none)
\* and the depth of the parentheses open outside quotes
QuoteScan(text) ==
    LET F[k \in 0..Len(text)] ==
            IF k = 0 THEN [quote |-> "", depth |-> 0]
            ELSE IF F[k - 1].quote # ""
                 THEN IF text[k] = F[k - 1].quote THEN [F[k - 1] EXCEPT !.quote = ""]
                      ELSE F[k - 1]
            ELSE IF text[k] \in {"'", "\""} THEN [F[k - 1] EXCEPT !.quote = text[k]]
            ELSE IF text[k] = "(" THEN [F[k - 1] EXCEPT !.depth = @ + 1]
            ELSE IF text[k] = ")" THEN [F[k - 1] EXCEPT !.depth = @ - 1]
            ELSE F[k - 1]
    IN  F

\* the parenthesis outside quotes that closes the first one; 0 where none does
MatchingParen(text) ==
    LET scan == QuoteScan(text)
        closes == {i \in (FirstParen(text) + 1)..Len(text) :
                      /\ text[i] = ")"
                      /\ scan[i - 1].quote = ""
                      /\ scan[i].depth = 0}
    IN  IF closes = {} THEN 0
        ELSE CHOOSE i \in closes : \A j \in closes : i <= j

\* the commas of the text outside quotes and outside parentheses
TopLevelCommas(text) ==
    LET scan == QuoteScan(text)
    IN  {i \in 1..Len(text) :
            text[i] = "," /\ scan[i - 1].quote = "" /\ scan[i - 1].depth = 0}

\* C20: for a DECODE or ADD_TO_DATE call the translator finds the
\* parenthesis that closes the call and separates one argument more than
\* the argument text has commas outside quotes and nested calls
C20_TopLevelArgumentsRecovered ==
    pc \in {"split", "unbalanced"} =>
        LET open == FirstParen(translation.expression)
            close == MatchingParen(translation.expression)
        IN  close # 0 =>
                /\ pc = "split"
                /\ translation.paren_end = close
                /\ Len(translation.args) =
                       Cardinality(TopLevelCommas(
                           SubSeq(translation.expression, open + 1, close - 1))) + 1


\* the Filter nodes of the mapping whose condition translate rejects
RejectedFilters ==
    {m \in DOMAIN metadata.transformations :
        /\ metadata.transformations[m].type = "Filter"
        /\ translate(metadata.transformations[m].filter_condition).raised}

\* C18: a node whose expression translate rejects leaves a recorded error
\* and no expression in the translated structure, and no expression of the
\* structure holds a denylisted token
C18_RejectedExpressionIsError ==
    \A k \in DOMAIN transformations :
        transformations[k].type = "Filter" =>
            /\ ~DenylistedIn(transformations[k].condition)
            /\ \A m \in RejectedFilters :
                   metadata.transformations[m].name = transformations[k].name =>
                       /\ transformations[k].condition = <<>>
                       /\ \E e \in DOMAIN errors :
                              errors[e].node = transformations[k].name



\* case(status, 'A', 'Active', 'I', 'Inactive', 'Unknown')
CaseExample ==
    <<"c", "a", "s", "e", "(", "s", "t", "a", "t", "u", "s", ",", " ", "'",
      "A", "'", ",", " ", "'", "A", "c", "t", "i", "v", "e", "'", ",", " ",
      "'", "I", "'", ",", " ", "'", "I", "n", "a", "c", "t", "i", "v", "e",
      "'", ",", " ", "'", "U", "n", "k", "n", "o", "w", "n", "'", ")">>

\* C21: translate called on the DECODE example returns the case() call with
\* the same arguments in the same order, separated by a comma and one space
C21_DecodeExampleTranslated ==
    (pc \in {"returned", "raised"} /\ translation.expression = DecodeExample) =>
        /\ pc = "returned"
        /\ translation.translated = CaseExample



(***************************************************************************)
(* One translator instance translating mappings one after the other, some  *)
(* of whose transformations are of a kind without an ADF equivalent        *)
(***************************************************************************)
\* most transformations of a mapping
MaxKinds == 3

\* most calls of translate_mapping on the instance
MaxCalls == 2

KindNames == {"A", "X", "Z"}

\* a kind of transformation_mappings and one that is not among its keys
KindTypes == {"Sorter", "Stored Procedure"}

\* the sequences of at most n transformations
RECURSIVE KindSeqs(_)
KindSeqs(n) ==
    IF n = 0 THEN {<<>>}
    ELSE LET shorter == KindSeqs(n - 1)
         IN  shorter \cup
             {Append(q, Transformation(name, type)) :
                 q \in {r \in shorter : Len(r) = n - 1},
                 name \in KindNames, type \in KindTypes}

KindMappings ==
    {[sources |-> <<"S1">>, transformations |-> nodes, connectors |-> <<>>,
      targets |-> <<"T">>] :
        nodes \in {q \in KindSeqs(MaxKinds) : DistinctNames(q)}}

KindsInit ==
    /\ pc = "translate_mapping"
    /\ metadata \in KindMappings
    /\ connection_map = <<>>
    /\ column_case_map = <<>>
    /\ errors = <<>>
    /\ warnings = <<>>
    /\ transformations = <<>>
    /\ ordered_transformations = <<>>
    /\ cursor = 1
    /\ GeneratorIdle
    /\ TranslationIdle
    /\ ValidatorIdle

\* translate_mapping called again on the instance, with another mapping:
\* __init__ is not run again and translate_mapping starts by storing its
\* argument
TranslateAnother ==
    /\ pc = "generate_dataflow"
    /\ Len(returned) < MaxCalls
    /\ metadata' \in KindMappings
    /\ pc' = "translate_mapping"
    /\ UNCHANGED <<connection_map, column_case_map, errors, warnings,
                   transformations, ordered_transformations, generatorVars,
                   adf_generator, translation, cursor, returned, validator>>

KindsNext ==
    \/ BuildConnectionMap
    \/ TranslateTransformation
    \/ ReturnStructure
    \/ TranslateAnother

SpecKinds == KindsInit /\ [][KindsNext]_vars

\* the transformations of the mapping whose kind has an ADF equivalent
SupportedOf(md) ==
    SelectSeq(md.transformations, LAMBDA t : t.type \in DOMAIN transformation_mappings)

\* C22: when translate_mapping returns, each transformation of a kind without
\* ADF equivalent has its warning and no translated node, and the translated
\* nodes are the other transformations of the mapping in declaration order,
\* each of its ADF type
C22_UnsupportedSkippedOthersKept ==
    pc = "generate_dataflow" =>
        /\ \A i \in DOMAIN metadata.transformations :
               metadata.transformations[i].type \notin DOMAIN transformation_mappings =>
                   /\ \E w \in DOMAIN warnings :
                          warnings[w] = Diagnostic("Unsupported",
                                                   metadata.transformations[i].name)
                   /\ \A k \in DOMAIN transformations :
                          transformations[k].name # metadata.transformations[i].name
        /\ Len(transformations) = Len(SupportedOf(metadata))
        /\ \A k \in DOMAIN transformations :
               /\ transformations[k].name = SupportedOf(metadata)[k].name
               /\ transformations[k].type =
                      transformation_mappings[SupportedOf(metadata)[k].type]

\* translate_mapping has returned for a mapping whose second transformation,
\* between two supported ones, is of an unsupported kind
C22_Witness ==
    /\ pc = "generate_dataflow"
    /\ Len(metadata.transformations) = 3
    /\ metadata.transformations[2].type \notin DOMAIN transformation_mappings
    /\ Len(transformations) = 2
    /\ warnings # <<>>



(***************************************************************************)
(* Mappings whose Lookups and Joiners feed one another                     *)
(***************************************************************************)
\* most connectors of a mapping
MaxLinks == 3

\* X and Z are Joiners or Lookups, on a table or on a flat file; X may also
\* be an Aggregator that groups by A and computes no aggregate
CycleNodes(name) ==
    {Transformation(name, "Joiner"), Transformation(name, "Lookup"),
     [Transformation(name, "Lookup") EXCEPT !.source_type = "Flat File"]}
    \cup (IF name = "X"
          THEN {[Transformation(name, "Aggregator") EXCEPT
                    !.group_by_fields = <<<<"A">>>>]}
          ELSE {})

LinkChoices ==
    {Connector("S1", "X"), Connector("X", "Z"), Connector("Z", "X"),
     Connector("Z", "Z")}

CycleMappings ==
    {[sources |-> <<"S1">>, transformations |-> <<x, z>>, connectors |-> cs,
      targets |-> <<"T">>] :
        x \in CycleNodes("X"), z \in CycleNodes("Z"),
        cs \in SeqsUpTo(LinkChoices, MaxLinks)}

CyclesInit ==
    /\ pc = "translate_mapping"
    /\ metadata \in CycleMappings
    /\ connection_map = <<>>
    /\ column_case_map = <<>>
    /\ errors = <<>>
    /\ warnings = <<>>
    /\ transformations = <<>>
    /\ ordered_transformations = <<>>
    /\ cursor = 1
    /\ GeneratorIdle
    /\ TranslationIdle
    /\ ValidatorIdle

SpecCycles == CyclesInit /\ [][Next]_vars

\* C23: after generate_dataflow on a structure whose transformations depend
\* on one another in a cycle, the generator's list of warnings is not empty
C23_CycleWarningCollected ==
    (pc = "done" /\ HasCycle(transformations)) => validation_warnings # <<>>



\* C24: once _build_column_case_map has run, column_case_map stays, for the
\* rest of the translate_mapping call and after it, the table built from
\* the schemas of the sources
C24_CaseMapReadOnly ==
    pc # "translate_mapping" =>
        column_case_map = build_column_case_map(metadata.sources)



\* what translate_mapping returns for a mapping on a translator that has
\* translated nothing before
FreshlyTranslated(md) ==
    LET cm == build_connection_map(md.connectors)
        F[k \in 0..Len(md.transformations)] ==
            IF k = 0
            THEN [structure |-> [transformations |-> <<>>, warnings |-> <<>>,
                                 errors |-> <<>>],
                  case_map |-> build_column_case_map(md.sources)]
            ELSE LET trans == md.transformations[k]
                     added(r) ==
                         [structure |->
                              [transformations |->
                                   F[k - 1].structure.transformations \o r.results,
                               warnings |-> F[k - 1].structure.warnings \o r.warnings,
                               errors |-> F[k - 1].structure.errors \o r.errors],
                          case_map |->
                              IF trans.type = "Expression"
                              THEN case_map_after(trans.expressions, F[k - 1].case_map)
                              ELSE F[k - 1].case_map]
                 IN  added(translate_transformation(trans, md, cm, F[k - 1].case_map))
    IN  F[Len(md.transformations)].structure

\* translate_mapping has just returned its structure for `metadata`
JustReturned == pc = "generate_dataflow" /\ returned # <<>>

\* C25: the structure translate_mapping returns for a mapping is the one a
\* translator that has translated nothing before returns for it, and a
\* structure once returned is not changed by the calls that follow
C25_MappingsIndependent ==
    /\ [](JustReturned => returned[Len(returned)] = FreshlyTranslated(metadata))
    /\ [][\A k \in DOMAIN returned : returned'[k] = returned[k]]_vars



(***************************************************************************)
(* A Lookup whose condition is written with each comparison operator       *)
(***************************************************************************)
\* most comparisons of a condition
MaxComparisons == 2

\* a comparison as written: the operator, with blanks around it or without
Comparisons ==
    [operator : Range(comparison_ops), spaced : BOOLEAN]

\* the text of one comparison between the columns A and X
ComparisonText(c) ==
    <<"A">> \o (IF c.spaced THEN <<" ">> \o c.operator \o <<" ">> ELSE c.operator)
    \o <<"X">>

ComparisonLists == SeqsUpTo(Comparisons, MaxComparisons) \ {<<>>}

\* the comparisons joined by ` AND `
RECURSIVE JoinedComparisons(_)
JoinedComparisons(cs) ==
    IF Len(cs) = 1 THEN ComparisonText(cs[1])
    ELSE ComparisonText(Head(cs)) \o <<" ", "A", "N", "D", " ">>
         \o JoinedComparisons(Tail(cs))

ConditionMappings ==
    {[sources |-> <<"S1">>,
      transformations |->
          <<[Transformation("L", "Lookup") EXCEPT
                !.lookup_condition = JoinedComparisons(cs)]>>,
      connectors |-> <<Connector("S1", "L")>>,
      targets |-> <<"T">>] :
        cs \in ComparisonLists}

ConditionsInit ==
    /\ pc = "translate_mapping"
    /\ metadata \in ConditionMappings
    /\ connection_map = <<>>
    /\ column_case_map = <<>>
    /\ errors = <<>>
    /\ warnings = <<>>
    /\ transformations = <<>>
    /\ ordered_transformations = <<>>
    /\ cursor = 1
    /\ GeneratorIdle
    /\ TranslationIdle
    /\ ValidatorIdle

SpecConditions == ConditionsInit /\ [][Next]_vars

\* the condition a comparison stands for: its operands and its operator,
\* `=` recorded as `==`
WrittenCondition(c) ==
    [leftColumn |-> <<"A">>, rightColumn |-> <<"X">>,
     operator |-> IF c.operator = <<"=">> THEN <<"=", "=">> ELSE c.operator]

\* C26: the conditions parsed from N comparisons joined by ` AND ` are N,
\* in the order written, each with the trimmed operands of its comparison
\* and the operator that was written
C26_ConditionsAsWritten ==
    \A cs \in ComparisonLists :
        (/\ transformations # <<>>
         /\ metadata.transformations[1].lookup_condition = JoinedComparisons(cs)) =>
            transformations[1].lookupConditions =
                [k \in DOMAIN cs |-> WrittenCondition(cs[k])]



\* the stream names the blocks before the i-th one declare
DeclaredBefore(i) ==
    {script_lines[j].name : j \in 1..(i - 1)} \ {None}

\* C27: for a mapping with a source, every block of the script that is not
\* a source block declares its name, and every stream it takes as input is
\* declared by a block before it
C27_InputsDeclaredEarlier ==
    metadata.sources # <<>> =>
        \A i \in DOMAIN script_lines :
            script_lines[i].kind # "source" =>
                /\ script_lines[i].name # None
                /\ \A n \in Range(script_lines[i].inputs) : n \in DeclaredBefore(i)



\* C28: a translated Join with both inputs set has two different inputs,
\* and the generator never raises its warning of a Join with the same
\* input on both sides
C28_JoinInputsDiffer ==
    /\ \A k \in DOMAIN transformations :
           (/\ transformations[k].type = "Join"
            /\ transformations[k].leftInput # None
            /\ transformations[k].rightInput # None) =>
               transformations[k].leftInput # transformations[k].rightInput
    /\ \A w \in DOMAIN validation_warnings :
           validation_warnings[w].kind # "JoinSameInput"

\* the script is complete and holds the join block of a Joiner whose two
\* upstream instances resolve to one source
C28_Witness ==
    /\ pc = "done"
    /\ \E e \in DOMAIN errors : errors[e].kind = "JoinerSameStream"
    /\ \E i \in DOMAIN script_lines :
           /\ script_lines[i].kind = "join"
           /\ Len(script_lines[i].inputs) = 2
           /\ script_lines[i].inputs[1] # script_lines[i].inputs[2]



\* the Lookups of the mapping that read a flat file
FlatFileLookups ==
    {k \in DOMAIN metadata.transformations :
        /\ metadata.transformations[k].type \in {"Lookup", "Lookup Procedure"}
        /\ metadata.transformations[k].source_type = "Flat File"}

\* C29: once generate_dataflow has declared the sources, the dataset of
\* every Lookup translated from a flat file lookup is among them, and its
\* source block stands before every transformation block of the script
C29_FlatFileLookupSourceAdded ==
    pc \in {"emit", "done"} =>
        \A k \in FlatFileLookups :
            /\ metadata.transformations[k].lookup_table \in Range(source_names)
            /\ \E i \in DOMAIN script_lines :
                   /\ script_lines[i].kind = "source"
                   /\ script_lines[i].name = metadata.transformations[k].lookup_table
                   /\ \A j \in 1..(i - 1) : script_lines[j].kind = "source"



(***************************************************************************)
(* MappingValidator.validate                                               *)
(***************************************************************************)
\* MappingValidator.UNSUPPORTED_TRANSFORMATIONS
UNSUPPORTED_TRANSFORMATIONS ==
    {"Sequence Generator", "Normalizer", "Rank", "Union", "XML Source Qualifier",
     "XML Target", "Custom Transformation", "Stored Procedure",
     "External Procedure", "HTTP Transformation", "Java Transformation"}

\* MappingValidator.SUPPORTED_TRANSFORMATIONS
SUPPORTED_TRANSFORMATIONS ==
    {"Source Qualifier", "Expression", "Filter", "Aggregator", "Joiner", "Sorter",
     "Router", "Lookup", "Lookup Procedure", "Update Strategy"}

\* what a step of validate appends to self.errors and to self.warnings
Findings(errs, warns) == [errors |-> errs, warnings |-> warns]

\* _validate_structure
validate_structure(md) ==
    Findings((IF md.sources = <<>> THEN <<Diagnostic("NoSources", None)>> ELSE <<>>)
             \o (IF md.targets = <<>> THEN <<Diagnostic("NoTargets", None)>> ELSE <<>>),
             IF md.transformations = <<>>
             THEN <<Diagnostic("NoTransformations", None)>> ELSE <<>>)

\* _validate_aggregator, _validate_lookup (no flat_file configuration, no
\* SQL override) and _validate_update_strategy
validate_kind(trans) ==
    CASE trans.type = "Aggregator" ->
             Findings(IF trans.group_by_fields = <<>> /\ trans.expressions = <<>>
                      THEN <<Diagnostic("AggregatorEmpty", trans.name)>> ELSE <<>>,
                      <<>>)
      [] trans.type \in {"Lookup", "Lookup Procedure"} ->
             Findings(IF trans.source_type # "Flat File" /\ trans.lookup_table = None
                      THEN <<Diagnostic("LookupNoTable", trans.name)>> ELSE <<>>,
                      (IF trans.source_type = "Flat File"
                       THEN <<Diagnostic("LookupFlatFileNoConfig", trans.name)>>
                       ELSE <<>>)
                      \o (IF trans.lookup_condition = <<>>
                          THEN <<Diagnostic("LookupNoCondition", trans.name)>>
                          ELSE <<>>))
      [] trans.type = "Update Strategy" ->
             Findings(<<>>,
                      IF trans.strategy = "DD_REJECT"
                      THEN <<Diagnostic("UpdateStrategyReject", trans.name)>>
                      ELSE <<>>)
      [] OTHER -> Findings(<<>>, <<>>)

\* one round of the loop of _validate_transformations (Joiner and Router,
\* whose properties the mappings of the model do not carry, left aside)
validate_transformation(trans) ==
    IF trans.type \in UNSUPPORTED_TRANSFORMATIONS
    THEN Findings(<<Diagnostic("Unsupported", trans.name)>>, <<>>)
    ELSE LET partly == IF trans.type \notin SUPPORTED_TRANSFORMATIONS
                       THEN <<Diagnostic("PartlySupported", trans.name)>> ELSE <<>>
             with(kind) == Findings(kind.errors, partly \o kind.warnings)
         IN  with(validate_kind(trans))

\* _validate_transformations
validate_transformations(ts) ==
    LET F[k \in 0..Len(ts)] ==
            IF k = 0 THEN Findings(<<>>, <<>>)
            ELSE LET added(f) == Findings(F[k - 1].errors \o f.errors,
                                          F[k - 1].warnings \o f.warnings)
                 IN  added(validate_transformation(ts[k]))
    IN  F[Len(ts)]

\* _build_dependency_graph: from_instance -> the to_instances, the keys in
\* the order of their first connector
build_dependency_graph(md) ==
    LET cs == md.connectors
        F[k \in 0..Len(cs)] ==
            IF k = 0 THEN <<>>
            ELSE DictSet(F[k - 1], cs[k].from_instance,
                         Append(IF cs[k].from_instance \in DictKeys(F[k - 1])
                                THEN DictGet(F[k - 1], cs[k].from_instance)
                                ELSE <<>>,
                                cs[k].to_instance))
    IN  F[Len(cs)]

\* the result of visit: what it returns, and the two sets as it leaves them
Visited(found, visited, rec_stack) ==
    [found |-> found, visited |-> visited, rec_stack |-> rec_stack]

\* visit(node) of _has_cycles, and its loop over graph.get(node, [])
RECURSIVE visit(_, _, _, _)
RECURSIVE visit_neighbors(_, _, _, _, _)
visit(flow_graph, node, visited, rec_stack) ==
    IF node \in rec_stack THEN Visited(TRUE, visited, rec_stack)
    ELSE IF node \in visited THEN Visited(FALSE, visited, rec_stack)
    ELSE LET left(r) == IF r.found THEN r
                        ELSE Visited(FALSE, r.visited, r.rec_stack \ {node})
         IN  left(visit_neighbors(flow_graph,
                                  IF node \in DictKeys(flow_graph)
                                  THEN DictGet(flow_graph, node) ELSE <<>>,
                                  1, visited \cup {node}, rec_stack \cup {node}))

visit_neighbors(flow_graph, neighbors, k, visited, rec_stack) ==
    IF k > Len(neighbors) THEN Visited(FALSE, visited, rec_stack)
    ELSE LET next(r) == IF r.found THEN r
                        ELSE visit_neighbors(flow_graph, neighbors, k + 1,
                                             r.visited, r.rec_stack)
         IN  next(visit(flow_graph, neighbors[k], visited, rec_stack))

\* the loop `for node in graph` of _has_cycles
RECURSIVE visit_keys(_, _, _, _)
visit_keys(flow_graph, k, visited, rec_stack) ==
    IF k > Len(flow_graph) THEN FALSE
    ELSE LET next(r) == r.found \/ visit_keys(flow_graph, k + 1, r.visited, r.rec_stack)
         IN  next(visit(flow_graph, flow_graph[k][1], visited, rec_stack))

\* _has_cycles
has_cycles(flow_graph) == visit_keys(flow_graph, 1, {}, {})

\* _find_disconnected_transformations, as the set it turns into a list
find_disconnected_transformations(md, flow_graph) ==
    {md.transformations[i].name : i \in DOMAIN md.transformations}
    \ (DictKeys(flow_graph)
        \cup UNION {Range(flow_graph[k][2]) : k \in DOMAIN flow_graph}
        \cup Range(md.sources) \cup Range(md.targets))

\* the lists list(a_set) may be: the elements in any order
Orderings(S) ==
    {q \in [1..Cardinality(S) -> S] : \A i, j \in DOMAIN q : q[i] = q[j] => i = j}

\* _validate_flow with the disconnected names in the order `disconnected`
validate_flow(md, disconnected) ==
    Findings(IF has_cycles(build_dependency_graph(md))
             THEN <<Diagnostic("CircularDependency", None)>> ELSE <<>>,
             [k \in DOMAIN disconnected |-> Diagnostic("Disconnected", disconnected[k])])

\* _check_chained_lookups: one recommendation when more than two
\* connectors lead from a Lookup to a Lookup
check_chained_lookups(md) ==
    LET lookups == {md.transformations[i].name :
                       i \in {k \in DOMAIN md.transformations :
                                 md.transformations[k].type
                                     \in {"Lookup", "Lookup Procedure"}}}
        lookup_chains == {i \in DOMAIN md.connectors :
                             /\ md.connectors[i].from_instance \in lookups
                             /\ md.connectors[i].to_instance \in lookups}
    IN  IF Cardinality(lookup_chains) > 2
        THEN <<Diagnostic("ChainedLookups", None)>> ELSE <<>>

\* the lists validate starts from, the earlier findings kept
ResetFindings_Kept(v) == Findings(v.errors, v.warnings)

\* validate resets self.errors and self.warnings to new empty lists
ResetFindings(v) == Findings(<<>>, <<>>)

\* most connectors of a validated mapping
MaxEdges == 2

EdgeChoices ==
    {Connector("S1", "X"), Connector("X", "Z"), Connector("Z", "X"),
     Connector("X", "X")}

ValidatedMappings ==
    {[sources |-> <<"S1">>,
      transformations |-> <<Transformation("X", t), Transformation("Z", "Sorter")>>,
      connectors |-> cs, targets |-> <<"T">>] :
        t \in {"Sorter", "Stored Procedure"},
        cs \in SeqsUpTo(EdgeChoices, MaxEdges)}

ValidateInit ==
    /\ pc = "validate"
    /\ metadata \in ValidatedMappings
    /\ connection_map = <<>>
    /\ column_case_map = <<>>
    /\ errors = <<>>
    /\ warnings = <<>>
    /\ transformations = <<>>
    /\ ordered_transformations = <<>>
    /\ cursor = 1
    /\ GeneratorIdle
    /\ TranslationIdle
    /\ ValidatorIdle

\* validate(metadata): the findings of its four steps appended to the
\* lists it has reset, and the two lists returned. No transformation of
\* the model has sorted input, so _validate_special_cases appends to the
\* recommendations only; the order of list(all_trans_names - connected)
\* is any
Validate ==
    /\ pc = "validate"
    /\ \E disconnected \in Orderings(find_disconnected_transformations(
                                          metadata, build_dependency_graph(metadata))) :
           LET start == ResetFindings(validator)
               structure == validate_structure(metadata)
               kinds == validate_transformations(metadata.transformations)
               flow == validate_flow(metadata, disconnected)
               errs == start.errors \o structure.errors \o kinds.errors \o flow.errors
               warns == start.warnings \o structure.warnings \o kinds.warnings
                        \o flow.warnings
           IN  validator' = [errors |-> errs, warnings |-> warns,
                             recommendations |-> check_chained_lookups(metadata),
                             results |-> Append(validator.results,
                                                Findings(errs, warns))]
    /\ pc' = "validated"
    /\ UNCHANGED <<translatorVars, transformations, ordered_transformations,
                   generatorVars, adf_generator, cursor, returned>>

\* validate called again on the validator, with another mapping
ValidateAnother ==
    /\ pc = "validated"
    /\ Len(validator.results) < MaxCalls
    /\ metadata' \in ValidatedMappings
    /\ pc' = "validate"
    /\ UNCHANGED <<connection_map, column_case_map, errors, warnings,
                   transformations, ordered_transformations, generatorVars,
                   adf_generator, translation, cursor, returned, validator>>

ValidateNext ==
    \/ Validate
    \/ ValidateAnother

SpecValidate == ValidateInit /\ [][ValidateNext]_vars

\* the instances reached from n by one connector or more
RECURSIVE ReachedFrom(_, _, _)
ReachedFrom(md, frontier, seen) ==
    LET next == {md.connectors[i].to_instance :
                    i \in {k \in DOMAIN md.connectors :
                              md.connectors[k].from_instance \in frontier}}
    IN  IF next \subseteq seen THEN seen
        ELSE ReachedFrom(md, next \ seen, seen \cup next)

\* the connectors of the mapping form a directed cycle
ConnectorCycle(md) ==
    \E i \in DOMAIN md.connectors :
        md.connectors[i].from_instance
            \in ReachedFrom(md, {md.connectors[i].from_instance}, {})

\* the errors a call of validate finds in the mapping
CallErrors(md) ==
    validate_structure(md).errors \o validate_transformations(md.transformations).errors
    \o (IF ConnectorCycle(md) THEN <<Diagnostic("CircularDependency", None)>> ELSE <<>>)

\* C30: validate reports the circular dependency exactly when the
\* connectors form a directed cycle, self-loops included, and what it
\* returns holds the findings of this call only
C30_CyclesFoundPerCall ==
    pc = "validated" =>
        /\ (\E e \in DOMAIN validator.errors :
                validator.errors[e].kind = "CircularDependency")
            <=> ConnectorCycle(metadata)
        /\ validator.results[Len(validator.results)].errors = CallErrors(metadata)
        /\ \A n \in Range(NamesOf(metadata.transformations)) :
               Cardinality({w \in DOMAIN validator.results[Len(validator.results)].warnings :
                               validator.results[Len(validator.results)].warnings[w]
                                   = Diagnostic("Disconnected", n)})
               = IF n \in find_disconnected_transformations(
                              metadata, build_dependency_graph(metadata))
                 THEN 1 ELSE 0

\* a second call has returned, for a mapping with a self-loop, after a
\* first call on a mapping without cycle that had an error of its own
C30_Witness ==
    /\ pc = "validated"
    /\ Len(validator.results) = 2
    /\ validator.results[1].errors # <<>>
    /\ \A e \in DOMAIN validator.results[1].errors :
           validator.results[1].errors[e].kind # "CircularDependency"
    /\ \E i \in DOMAIN metadata.connectors :
           metadata.connectors[i].from_instance = metadata.connectors[i].to_instance
    /\ \E e \in DOMAIN validator.errors :
           validator.errors[e].kind = "CircularDependency"

====
